---- MODULE Spec2Model ----
(***************************************************************************)
(* A model of ffmpeg_tools: the validation engine (validation.py), the     *)
(* codec and container registries (codecs.py, formats.py), the FrameRate   *)
(* value type (frame_rate.py), SparseRange (utils.py) and the metadata     *)
(* accessors (meta.py).                                                    *)
(*                                                                         *)
(* Every function of the library is a synchronous call.  The state is the  *)
(* call in progress: `op` names the function, `args` holds its arguments   *)
(* and `result` what it returned or the name of the exception it raised.   *)
(* Between two calls the program is idle; nothing is kept from one call to *)
(* the next (the lookup tables are constants).  Two more variables hold    *)
(* what a call does outside the process: `executed` is the list of the     *)
(* commands the call in progress ran as subprocesses, and `files` is the    *)
(* file system, a function from the paths that exist to their contents.    *)
(*                                                                         *)
(* Python values:                                                          *)
(*   - a dict is a function from its keys; `k in d` is k \in DOMAIN d;     *)
(*   - a str that the code parses is a sequence of one-character strings;  *)
(*   - a raw frame rate is a tagged record (see the Raw... operators);     *)
(*   - None, where a str is expected, is the constant None.                *)
(***************************************************************************)
EXTENDS Integers, Sequences, FiniteSets, TLC

VARIABLES op, args, result, executed, files

vars == <<op, args, result, executed, files>>

None == "None"

\* A returned value, and a raised exception.
Ok(v) == [ok |-> TRUE, value |-> v]

Raise(e) == [ok |-> FALSE, error |-> e]

---------------------------------------------------------------------------
(* Bounds of the model.                                                    *)

\* Source frame rates given to _guess_target_frame_rate are n/d with
\* 0 <= n <= MaxDividend and 1 <= d <= MaxDivisor.
MaxDividend == 250

MaxDivisor == 4

\* Audio streams have 0..MaxChannels channels.
MaxChannels == 4

\* The files given to the stream checks have 0..MaxStreams streams.
MaxStreams == 3

\* adjust_stream_indexes_for_removals is given maps of at most MaxMapSize
\* entries and lists of at most MaxRemoved indexes, the indexes in 0..MaxIndex.
MaxMapSize == 3

MaxRemoved == 3

MaxIndex == 4

\* The number of lines of ffmpeg's help for a muxer.
MaxLines == 3

\* The most segments that ffmpeg cuts a video into.
MaxSegments == 2

---------------------------------------------------------------------------
(* frame_rate.py                                                           *)

FrameRate(dividend, divisor) == [dividend |-> dividend, divisor |-> divisor]

RECURSIVE gcd(_, _)
gcd(a, b) == IF b = 0 THEN a ELSE gcd(b, a % b)

\* The two assertions of FrameRate.normalized.
FrameRateInvariant(rate) == rate.dividend >= 0 /\ rate.divisor > 0

normalized(rate) ==
    LET common_divisor == gcd(rate.dividend, rate.divisor)
    IN  FrameRate(rate.dividend \div common_divisor, rate.divisor \div common_divisor)

to_float_greater_or_equal(rate, bound) == rate.dividend >= bound * rate.divisor

\* rate.to_float() > bound, for an integer bound.  dividend / divisor is exact
\* for the integers of the model, and the divisor is positive.
to_float_greater(rate, bound) == rate.dividend > bound * rate.divisor

\* Raw values, as FrameRate.decode tells them apart with isinstance.
RawNone == [kind |-> "none"]

RawInt(i) == [kind |-> "int", val |-> i]

RawStr(chars) == [kind |-> "str", chars |-> chars]

\* A finite float: `whole` when integral, and otherwise a value strictly between
\* whole and whole + 1.
RawFloat(whole, integral) == [kind |-> "float", val |-> whole, integral |-> integral]

\* float('inf') and float('nan'): int() raises OverflowError on the first and
\* ValueError on the second.
RawFloatInf == [kind |-> "float_inf"]

RawFloatNan == [kind |-> "float_nan"]

RawList(items) == [kind |-> "list", items |-> items]

RawFrameRate(dividend, divisor) ==
    [kind |-> "FrameRate", dividend |-> dividend, divisor |-> divisor]

DigitChars == <<"0", "1", "2", "3", "4", "5", "6", "7", "8", "9">>

IsDigit(c) == \E i \in 1..10 : DigitChars[i] = c

DigitValue(c) == (CHOOSE i \in 1..10 : DigitChars[i] = c) - 1

RECURSIVE DigitsValue(_)
DigitsValue(chars) ==
    IF chars = <<>> THEN 0
    ELSE LET last == chars[Len(chars)]
             init == SubSeq(chars, 1, Len(chars) - 1)
         IN  IF last = "_" THEN DigitsValue(init)
             ELSE 10 * DigitsValue(init) + DigitValue(last)

RECURSIVE lstrip(_)
lstrip(chars) ==
    IF chars # <<>> /\ chars[1] = " " THEN lstrip(Tail(chars)) ELSE chars

RECURSIVE rstrip(_)
rstrip(chars) ==
    IF chars # <<>> /\ chars[Len(chars)] = " "
    THEN rstrip(SubSeq(chars, 1, Len(chars) - 1))
    ELSE chars

\* Python's int(str): surrounding blanks, an optional sign, decimal digits with
\* single underscores between them; anything else raises ValueError.
int(chars) ==
    LET stripped == rstrip(lstrip(chars))
        signed   == stripped # <<>> /\ stripped[1] \in {"+", "-"}
        body     == IF signed THEN Tail(stripped) ELSE stripped
        wellformed ==
            /\ body # <<>>
            /\ \A i \in 1..Len(body) : IsDigit(body[i]) \/ body[i] = "_"
            /\ body[1] # "_"
            /\ body[Len(body)] # "_"
            /\ \A i \in 1..(Len(body) - 1) : ~(body[i] = "_" /\ body[i + 1] = "_")
    IN  IF ~wellformed THEN Raise("ValueError")
        ELSE Ok(IF signed /\ stripped[1] = "-" THEN 0 - DigitsValue(body)
                ELSE DigitsValue(body))

\* str.split('/', 1)
split_slash_once(chars) ==
    IF \E i \in 1..Len(chars) : chars[i] = "/"
    THEN LET k == CHOOSE i \in 1..Len(chars) :
                      chars[i] = "/" /\ \A j \in 1..(i - 1) : chars[j] # "/"
         IN  <<SubSeq(chars, 1, k - 1), SubSeq(chars, k + 1, Len(chars))>>
    ELSE <<chars>>

from_collection(collection) ==
    IF Len(collection) \notin {1, 2}
       \/ \E i \in 1..Len(collection) : collection[i].kind # "int"
    THEN Raise("ValueError")
    ELSE LET dividend == collection[1].val
             divisor  == IF Len(collection) = 1 THEN 1 ELSE collection[2].val
         IN  IF dividend < 0 \/ divisor < 0 THEN Raise("ValueError")
             ELSE IF divisor = 0 THEN Raise("ValueError")
             ELSE Ok(FrameRate(dividend, divisor))

\* from_string reducing the fraction it has read.
from_string_reduced(chars) ==
    LET parts == split_slash_once(chars)
        ints  == [i \in 1..Len(parts) |-> int(parts[i])]
        read  == from_collection([i \in 1..Len(parts) |-> RawInt(ints[i].value)])
    IN  IF \E i \in 1..Len(parts) : ~ints[i].ok THEN Raise("ValueError")
        ELSE IF ~read.ok THEN read
        ELSE Ok(normalized(read.value))

from_string(chars) ==
    LET parts == split_slash_once(chars)
        ints  == [i \in 1..Len(parts) |-> int(parts[i])]
    IN  IF \E i \in 1..Len(parts) : ~ints[i].ok THEN Raise("ValueError")
        ELSE from_collection([i \in 1..Len(parts) |-> RawInt(ints[i].value)])

decode(raw_value) ==
    CASE raw_value.kind = "str"       -> from_string(raw_value.chars)
      [] raw_value.kind = "int"       -> from_collection(<<raw_value>>)
      [] raw_value.kind = "float"     ->
            IF raw_value.integral THEN from_collection(<<RawInt(raw_value.val)>>)
            ELSE Raise("ValueError")
      [] raw_value.kind = "float_inf" -> Raise("OverflowError")
      [] raw_value.kind = "float_nan" -> Raise("ValueError")
      [] raw_value.kind = "FrameRate" ->
            Ok(FrameRate(raw_value.dividend, raw_value.divisor))
      [] raw_value.kind = "list"      -> from_collection(raw_value.items)
      [] OTHER                        -> Raise("ValueError")

---------------------------------------------------------------------------
(* formats.py and codecs.py: the frame-rate tables                         *)

_frame_rates ==
    { FrameRate(24000, 1001), FrameRate(12, 1), FrameRate(15, 1), FrameRate(24, 1),
      FrameRate(25, 1), FrameRate(30000, 1001), FrameRate(30, 1), FrameRate(50, 1),
      FrameRate(60, 1), FrameRate(240, 1), FrameRate(1000, 1) }

list_supported_frame_rates == _frame_rates

MAX_SUPPORTED_FRAME_RATE == "mpeg1video" :> 60

FRAME_RATE_SUBSTITUTIONS ==
    "mpeg2video" :> (FrameRate(25, 2) :> FrameRate(12, 1))

---------------------------------------------------------------------------
(* validation.py: the frame rate                                           *)

NoRate == [kind |-> "none"]

_guess_target_frame_rate_for_special_cases(src_frame_rate, dst_video_codec) ==
    LET normalized_src_rate == normalized(src_frame_rate)
    IN  IF /\ dst_video_codec \in DOMAIN MAX_SUPPORTED_FRAME_RATE
           /\ to_float_greater(normalized_src_rate,
                               MAX_SUPPORTED_FRAME_RATE[dst_video_codec])
        THEN FrameRate(MAX_SUPPORTED_FRAME_RATE[dst_video_codec], 1)
        ELSE IF /\ dst_video_codec \in DOMAIN FRAME_RATE_SUBSTITUTIONS
                /\ normalized_src_rate \in DOMAIN FRAME_RATE_SUBSTITUTIONS[dst_video_codec]
        THEN FRAME_RATE_SUBSTITUTIONS[dst_video_codec][normalized_src_rate]
        ELSE NoRate

_guess_target_frame_rate(src_frame_rate, dst_params) ==
    LET target_frame_rate ==
            _guess_target_frame_rate_for_special_cases(
                src_frame_rate, dst_params["video"]["codec"])
    IN  IF target_frame_rate # NoRate THEN target_frame_rate ELSE src_frame_rate

\* except ValueError: raise InvalidFrameRate; any other exception propagates.
decode_failure(decoded) ==
    IF decoded.error = "ValueError" THEN "InvalidFrameRate" ELSE decoded.error

\* The last statement of validate_frame_rate: the membership test.
frame_rate_membership(target_frame_rate) ==
    IF ~FrameRateInvariant(target_frame_rate) THEN "AssertionError"
    ELSE IF normalized(target_frame_rate) \notin list_supported_frame_rates
    THEN "InvalidFrameRate"
    ELSE "True"

validate_frame_rate_capping_explicit(dst_params, src_frame_rate) ==
    LET raw == IF "frame_rate" \in DOMAIN dst_params THEN dst_params["frame_rate"]
               ELSE src_frame_rate
        decoded == decode(raw)
    IN  IF ~decoded.ok THEN decode_failure(decoded)
        ELSE IF ~FrameRateInvariant(decoded.value) THEN "AssertionError"
        ELSE frame_rate_membership(_guess_target_frame_rate(decoded.value, dst_params))

validate_frame_rate(dst_params, src_frame_rate) ==
    IF "frame_rate" \in DOMAIN dst_params
    THEN LET decoded == decode(dst_params["frame_rate"])
         IN  IF ~decoded.ok THEN decode_failure(decoded)
             ELSE frame_rate_membership(decoded.value)
    ELSE IF src_frame_rate = RawNone THEN "InvalidFrameRate"
    ELSE LET decoded_src_frame_rate == decode(src_frame_rate)
         IN  IF ~decoded_src_frame_rate.ok THEN decode_failure(decoded_src_frame_rate)
             \* src_frame_rate.normalized() in _guess_target_frame_rate_for_special_cases
             ELSE IF ~FrameRateInvariant(decoded_src_frame_rate.value)
             THEN "AssertionError"
             ELSE frame_rate_membership(
                      _guess_target_frame_rate(decoded_src_frame_rate.value, dst_params))

---------------------------------------------------------------------------
(* formats.py: the aspect ratio.  The string f"{w}:{h}" is the pair <<w, h>>: *)
(* two such strings are equal exactly when the pairs are.                    *)

_aspect_ratio_overrides ==
    (<<16, 9>> :> {<<426, 240>>, <<854, 480>>, <<1366, 768>>, <<1360, 768>>})
    @@ (<<21, 9>> :> {<<2560, 1080>>, <<3440, 1440>>})

calculate_aspect_ratio(resolution) ==
    LET resolution_gcd == gcd(resolution[1], resolution[2])
    IN  IF resolution_gcd = 0 THEN Raise("ZeroDivisionError")
        ELSE Ok(<<resolution[1] \div resolution_gcd, resolution[2] \div resolution_gcd>>)

get_effective_aspect_ratio(resolution) ==
    IF \E aspect \in DOMAIN _aspect_ratio_overrides :
           resolution \in _aspect_ratio_overrides[aspect]
    THEN Ok(CHOOSE aspect \in DOMAIN _aspect_ratio_overrides :
                resolution \in _aspect_ratio_overrides[aspect])
    ELSE calculate_aspect_ratio(resolution)

validate_resolution(src_resolution, target_resolution) ==
    LET src_aspect == get_effective_aspect_ratio(src_resolution)
        target_aspect == get_effective_aspect_ratio(target_resolution)
    IN  IF ~src_aspect.ok THEN src_aspect.error
        ELSE IF ~target_aspect.ok THEN target_aspect.error
        ELSE IF src_aspect.value = target_aspect.value THEN "True"
        ELSE "InvalidResolution"

---------------------------------------------------------------------------
(* codecs.py: the audio codecs                                             *)

AudioCodec ==
    {"aac", "ac3", "amr_nb", "mp2", "mp3", "opus", "pcm_u8", "wmav2", "wmapro", "vorbis"}

_AUDIO_ENCODERS ==
    [aac |-> "aac", ac3 |-> "ac3", amr_nb |-> "libopencore_amrnb", mp2 |-> "mp2",
     mp3 |-> "libmp3lame", opus |-> "libopus", pcm_u8 |-> "pcm_u8", wmapro |-> None,
     wmav2 |-> "wmav2", vorbis |-> "libvorbis"]

AudioCodec_get_encoder(codec) ==
    IF codec \in DOMAIN _AUDIO_ENCODERS THEN _AUDIO_ENCODERS[codec] ELSE codec

\* Every row of the table lists the same targets: all codecs but wmapro.
_AUDIO_CONVERSION_TARGETS ==
    {"aac", "ac3", "amr_nb", "mp2", "mp3", "opus", "pcm_u8", "wmav2", "vorbis"}

_AUDIO_SUPPORTED_CONVERSIONS == [codec \in AudioCodec |-> _AUDIO_CONVERSION_TARGETS]

AudioCodec_get_supported_conversions(codec) ==
    IF codec \in DOMAIN _AUDIO_SUPPORTED_CONVERSIONS
    THEN _AUDIO_SUPPORTED_CONVERSIONS[codec]
    ELSE {}

AudioCodec_can_convert(self, audio_codec) ==
    audio_codec \in AudioCodec_get_supported_conversions(self)

---------------------------------------------------------------------------
(* utils.py: SparseRange.  A bound of a range is an integer or None.       *)

Unbounded == [bounded |-> FALSE]

Bound(v) == [bounded |-> TRUE, v |-> v]

SparseRange(points, ranges) == [_points |-> points, _ranges |-> ranges]

min(a, b) == IF a <= b THEN a ELSE b

max(a, b) == IF a >= b THEN a ELSE b

contains(self, value) ==
    \/ value \in self._points
    \/ \E range \in self._ranges :
          \/ ~range[1].bounded /\ ~range[2].bounded
          \/ /\ range[1].bounded \/ range[2].bounded
             /\ LET low  == IF range[1].bounded THEN range[1].v
                            ELSE min(value, range[2].v)
                    high == IF range[2].bounded THEN range[2].v
                            ELSE max(value, range[1].v)
                IN  low <= value /\ value <= high

_SUPPORTED_SAMPLE_RATES ==
    [aac |-> SparseRange({96000, 88200, 64000, 48000, 44100, 32000, 24000, 22050,
                          16000, 12000, 11025, 8000, 7350}, {}),
     mp3 |-> SparseRange({48000, 44100, 32000, 24000, 22050, 16000, 12000, 11025,
                          8000}, {}),
     libmp3lame |-> SparseRange({48000, 44100, 32000, 24000, 22050, 16000, 12000,
                                 11025, 8000}, {}),
     mp2 |-> SparseRange({48000, 44100, 32000, 24000, 22050, 16000}, {}),
     opus |-> SparseRange({48000}, {}),
     libopus |-> SparseRange({48000, 24000, 16000, 12000, 8000}, {}),
     libopencore_amrnb |-> SparseRange({8000}, {}),
     ac3 |-> SparseRange({48000, 44100, 32000, 24000, 22050, 16000, 12000, 11025,
                          8000}, {}),
     libvorbis |-> SparseRange({}, {<<Bound(1000), Bound(200000)>>}),
     wmav2 |-> SparseRange({}, {<<Bound(2), Bound(48000)>>}),
     pcm_u8 |-> SparseRange({}, {<<Bound(1), Unbounded>>})]

\* An optional dict argument: None, or the dict.
NoDict == [is_none |-> TRUE]

Dict(d) == [is_none |-> FALSE, dict |-> d]

EmptyDict == [k \in {} |-> {}]

is_supported_sample_rate_table_first(codec, sample_rate, encoder_info) ==
    LET encoder == AudioCodec_get_encoder(codec)
    IN  IF encoder = None THEN FALSE
        ELSE IF encoder \in DOMAIN _SUPPORTED_SAMPLE_RATES
        THEN contains(_SUPPORTED_SAMPLE_RATES[encoder], sample_rate)
        ELSE IF ~encoder_info.is_none /\ "sample_rates" \in DOMAIN encoder_info.dict
        THEN sample_rate \in encoder_info.dict["sample_rates"]
        ELSE FALSE

\* AudioCodec.is_supported_sample_rate; `codec` is self.value.
is_supported_sample_rate(codec, sample_rate, encoder_info) ==
    LET encoder == AudioCodec_get_encoder(codec)
    IN  IF encoder = None THEN FALSE
        ELSE IF ~encoder_info.is_none /\ "sample_rates" \in DOMAIN encoder_info.dict
        THEN sample_rate \in encoder_info.dict["sample_rates"]
        ELSE IF encoder \in DOMAIN _SUPPORTED_SAMPLE_RATES
        THEN contains(_SUPPORTED_SAMPLE_RATES[encoder], sample_rate)
        ELSE FALSE

---------------------------------------------------------------------------
(* validation.py: the audio codec conversion                               *)

_MAX_SUPPORTED_AUDIO_CHANNELS == 2

validate_audio_codec_conversion(src_codec, dst_codec, audio_stream) ==
    IF src_codec \notin AudioCodec THEN "UnsupportedAudioCodec"
    ELSE IF dst_codec \notin AudioCodec_get_supported_conversions(src_codec)
    THEN "UnsupportedAudioCodecConversion"
    ELSE IF src_codec = dst_codec THEN "True"
    ELSE IF "channels" \notin DOMAIN audio_stream THEN "KeyError"
    ELSE IF audio_stream["channels"] > _MAX_SUPPORTED_AUDIO_CHANNELS
    THEN "UnsupportedAudioChannelLayout"
    ELSE "True"

---------------------------------------------------------------------------
(* codecs.py: the video and subtitle codecs                                *)

DATA_STREAM_WHITELIST == {"bin_data"}

VideoCodec ==
    {"av1", "flv1", "h263", "h264", "h265", "hevc", "mjpeg", "mpeg1video", "mpeg2video",
     "mpeg4", "msmpeg4v2", "theora", "vp8", "vp9", "wmv1", "wmv2", "wmv3"}

\* Every row of the table but those of av1 and msmpeg4v2 lists these targets.
_VIDEO_CONVERSION_TARGETS ==
    {"flv1", "h264", "h265", "hevc", "mjpeg", "mpeg1video", "mpeg2video", "mpeg4",
     "vp8", "vp9", "wmv1", "wmv2"}

\* The table with every codec as a target of every codec.
_VIDEO_SUPPORTED_CONVERSIONS_to_every_codec == [codec \in VideoCodec |-> VideoCodec]

_VIDEO_SUPPORTED_CONVERSIONS ==
    [codec \in VideoCodec |->
        IF codec \in {"av1", "msmpeg4v2"} THEN {} ELSE _VIDEO_CONVERSION_TARGETS]

VideoCodec_get_supported_conversions(codec) ==
    IF codec \in DOMAIN _VIDEO_SUPPORTED_CONVERSIONS
    THEN _VIDEO_SUPPORTED_CONVERSIONS[codec]
    ELSE {}

VideoCodec_can_convert(self, video_codec) ==
    video_codec \in VideoCodec_get_supported_conversions(self)

SubtitleCodec == {"ass", "mov_text", "subrip", "webvtt"}

_SUBTITLE_SUPPORTED_CONVERSIONS ==
    [codec \in SubtitleCodec |-> {"subrip", "ass", "mov_text", "webvtt"}]

SubtitleCodec_get_supported_conversions(codec) ==
    IF codec \in DOMAIN _SUBTITLE_SUPPORTED_CONVERSIONS
    THEN _SUBTITLE_SUPPORTED_CONVERSIONS[codec]
    ELSE {}

SubtitleCodec_can_convert(self, subtitle_codec) ==
    subtitle_codec \in SubtitleCodec_get_supported_conversions(self)

---------------------------------------------------------------------------
(* formats.py: the containers                                              *)

c_QUICK_TIME_DEMUXER == "mov,mp4,m4a,3gp,3g2,mj2"

c_MATROSKA_WEBM_DEMUXER == "matroska,webm"

Container ==
    {"3g2", "3gp", "asf", "avi", "f4v", "flv", "ipod", "matroska", "mov", "mp4", "mpeg",
     "mpegts", "ogg", "svcd", "webm", c_QUICK_TIME_DEMUXER, c_MATROSKA_WEBM_DEMUXER}

list_supported_formats == Container

_EXCLUSIVE_DEMUXERS == {c_QUICK_TIME_DEMUXER, c_MATROSKA_WEBM_DEMUXER}

_DEMUXER_MAP ==
    ("3g2" :> c_QUICK_TIME_DEMUXER) @@ ("3gp" :> c_QUICK_TIME_DEMUXER)
    @@ ("f4v" :> c_QUICK_TIME_DEMUXER) @@ ("ipod" :> c_QUICK_TIME_DEMUXER)
    @@ ("matroska" :> c_MATROSKA_WEBM_DEMUXER) @@ ("mov" :> c_QUICK_TIME_DEMUXER)
    @@ ("mp4" :> c_QUICK_TIME_DEMUXER) @@ ("svcd" :> "mpeg")
    @@ ("webm" :> c_MATROSKA_WEBM_DEMUXER)

_ASF_CODECS ==
    [videocodecs |-> {"wmv1", "wmv2", "wmv3"},
     audiocodecs |-> {"aac", "wmav2", "wmapro"},
     subtitlecodecs |-> {}]

_MOV_CODECS ==
    [videocodecs |-> {"h264", "h265", "hevc", "mjpeg", "mpeg1video", "mpeg2video"},
     audiocodecs |-> {"mp3", "aac", "pcm_u8"},
     subtitlecodecs |-> {"mov_text"}]

_FLV_CODECS ==
    [videocodecs |-> {"flv1"}, audiocodecs |-> {"mp3"}, subtitlecodecs |-> {}]

_M4V_CODECS ==
    [videocodecs |-> {"h264", "mpeg4"},
     audiocodecs |-> {"aac", "ac3", "mp3"},
     subtitlecodecs |-> {"mov_text"}]

_MP4_CODECS ==
    [videocodecs |-> {"h264", "h265", "hevc", "mpeg4"},
     audiocodecs |-> {"aac", "mp3"},
     subtitlecodecs |-> {"mov_text"}]

_MKV_CODECS ==
    [videocodecs |-> {"flv1", "h263", "h264", "h265", "hevc", "mjpeg", "mpeg1video",
                      "mpeg2video", "mpeg4", "msmpeg4v2", "theora", "vp8", "vp9",
                      "wmv1", "wmv2"},
     audiocodecs |-> {"mp3", "aac", "vorbis"},
     subtitlecodecs |-> {"ass", "subrip", "webvtt"}]

_WEBM_CODECS ==
    [videocodecs |-> {"av1", "vp8", "vp9"},
     audiocodecs |-> {"opus", "vorbis", "vp8"},
     subtitlecodecs |-> {"webvtt"}]

_OGG_CODECS ==
    [videocodecs |-> {"theora"}, audiocodecs |-> {"opus", "vorbis"},
     subtitlecodecs |-> {}]

_AVI_CODECS ==
    [videocodecs |-> {"h264", "mjpeg", "mpeg1video", "mpeg2video", "mpeg4"},
     audiocodecs |-> {"mp3", "opus"},
     subtitlecodecs |-> {}]

_3GP_CODECS ==
    [videocodecs |-> {"h263", "h264", "mpeg4"},
     audiocodecs |-> {"aac", "amr_nb"},
     subtitlecodecs |-> {"mov_text"}]

_MPEG_CODECS ==
    [videocodecs |-> {"h264", "mpeg1video", "mpeg2video", "mpeg4"},
     audiocodecs |-> {"ac3", "mp2", "mp3"},
     subtitlecodecs |-> {}]

_CONTAINER_SUPPORTED_CODECS ==
    ("3g2" :> _3GP_CODECS) @@ ("3gp" :> _3GP_CODECS) @@ ("avi" :> _AVI_CODECS)
    @@ ("asf" :> _ASF_CODECS) @@ ("flv" :> _FLV_CODECS) @@ ("ipod" :> _M4V_CODECS)
    @@ ("matroska" :> _MKV_CODECS) @@ ("mov" :> _MOV_CODECS) @@ ("mp4" :> _MP4_CODECS)
    @@ ("mpeg" :> _MPEG_CODECS) @@ ("mpegts" :> _MPEG_CODECS) @@ ("ogg" :> _OGG_CODECS)
    @@ ("svcd" :> _MPEG_CODECS) @@ ("webm" :> _WEBM_CODECS)

is_exclusive_demuxer(container) == container \in _EXCLUSIVE_DEMUXERS

get_matching_muxers(container) ==
    LET muxers == {muxer \in DOMAIN _DEMUXER_MAP : _DEMUXER_MAP[muxer] = container}
    IN  IF is_exclusive_demuxer(container) THEN muxers ELSE muxers \cup {container}

\* get_supported_video_codecs, get_supported_audio_codecs and
\* get_supported_subtitle_codecs; `kind` is the key of the codec table.
\* Every matching muxer of an exclusive demuxer is a concrete muxer.
concrete_supported_codecs(container, kind) ==
    IF container \notin DOMAIN _CONTAINER_SUPPORTED_CODECS THEN {}
    ELSE _CONTAINER_SUPPORTED_CODECS[container][kind]

get_supported_codecs(container, kind) ==
    IF container \in _EXCLUSIVE_DEMUXERS
    THEN UNION {concrete_supported_codecs(muxer, kind) :
                    muxer \in get_matching_muxers(container)}
    ELSE concrete_supported_codecs(container, kind)

_SAFE_INTERMEDIATE_FORMATS ==
    (c_MATROSKA_WEBM_DEMUXER :> "matroska") @@ (c_QUICK_TIME_DEMUXER :> "mov")

get_intermediate_muxer(container) ==
    IF container \notin DOMAIN _SAFE_INTERMEDIATE_FORMATS THEN container
    ELSE _SAFE_INTERMEDIATE_FORMATS[container]

list_supported_video_codecs(vformat) ==
    IF vformat \notin Container THEN {} ELSE get_supported_codecs(vformat, "videocodecs")

is_supported_video_codec(vformat, codec) == codec \in list_supported_video_codecs(vformat)

list_supported_audio_codecs(vformat) ==
    IF vformat \notin Container THEN {} ELSE get_supported_codecs(vformat, "audiocodecs")

is_supported_audio_codec(vformat, codec) == codec \in list_supported_audio_codecs(vformat)

\* sorted(supported_codecs)[0]: the subtitle codec names in str order.
_SUBTITLE_CODECS_SORTED == <<"ass", "mov_text", "subrip", "webvtt">>

\* select_conversion_for_container preferring the codec the stream already has.
select_conversion_for_container_keeping_codec(codec, target_container) ==
    IF target_container \notin list_supported_formats THEN None
    ELSE LET supported_codecs ==
                 SubtitleCodec_get_supported_conversions(codec)
                 \cap get_supported_codecs(target_container, "subtitlecodecs")
         IN  IF supported_codecs = {} THEN None
             ELSE IF codec \in supported_codecs THEN codec
             ELSE _SUBTITLE_CODECS_SORTED[
                      CHOOSE i \in 1..Len(_SUBTITLE_CODECS_SORTED) :
                          /\ _SUBTITLE_CODECS_SORTED[i] \in supported_codecs
                          /\ \A j \in 1..(i - 1) :
                                 _SUBTITLE_CODECS_SORTED[j] \notin supported_codecs]

select_conversion_for_container(codec, target_container) ==
    IF target_container \notin list_supported_formats THEN None
    ELSE LET supported_codecs ==
                 SubtitleCodec_get_supported_conversions(codec)
                 \cap get_supported_codecs(target_container, "subtitlecodecs")
         IN  IF supported_codecs = {} THEN None
             ELSE _SUBTITLE_CODECS_SORTED[
                      CHOOSE i \in 1..Len(_SUBTITLE_CODECS_SORTED) :
                          /\ _SUBTITLE_CODECS_SORTED[i] \in supported_codecs
                          /\ \A j \in 1..(i - 1) :
                                 _SUBTITLE_CODECS_SORTED[j] \notin supported_codecs]

---------------------------------------------------------------------------
(* meta.py.  Metadata is the dict ffprobe printed: "format" and "streams",  *)
(* a list of stream dicts.                                                   *)

\* for stream in metadata["streams"]: if stream["codec_type"] == codec_type:
\* return stream[attribute]; after the loop, return default.
RECURSIVE first_stream_attribute(_, _, _, _)
first_stream_attribute(streams, codec_type, attribute, default) ==
    IF streams = <<>> THEN Ok(default)
    ELSE IF "codec_type" \notin DOMAIN Head(streams) THEN Raise("KeyError")
    ELSE IF Head(streams)["codec_type"] # codec_type
    THEN first_stream_attribute(Tail(streams), codec_type, attribute, default)
    ELSE IF attribute \notin DOMAIN Head(streams) THEN Raise("KeyError")
    ELSE Ok(Head(streams)[attribute])

get_resolution(metadata) ==
    IF "streams" \notin DOMAIN metadata THEN Raise("KeyError")
    ELSE LET width  == first_stream_attribute(metadata["streams"], "video", "width", 0)
             height == first_stream_attribute(metadata["streams"], "video", "height", 0)
         IN  IF ~width.ok THEN width
             ELSE IF ~height.ok THEN height
             ELSE Ok(<<width.value, height.value>>)

get_frame_rate(metadata) ==
    IF "streams" \notin DOMAIN metadata THEN Raise("KeyError")
    ELSE first_stream_attribute(metadata["streams"], "video", "r_frame_rate", RawNone)

get_video_codec(metadata) ==
    IF "streams" \notin DOMAIN metadata THEN Raise("KeyError")
    ELSE first_stream_attribute(metadata["streams"], "video", "codec_name", "")

get_audio_codec(metadata) ==
    IF "streams" \notin DOMAIN metadata THEN Raise("KeyError")
    ELSE first_stream_attribute(metadata["streams"], "audio", "codec_name", "")

get_format(metadata) ==
    IF "format" \notin DOMAIN metadata THEN Raise("KeyError")
    ELSE IF "format_name" \notin DOMAIN metadata["format"] THEN Raise("KeyError")
    ELSE Ok(metadata["format"]["format_name"])

RECURSIVE first_stream(_, _)
first_stream(streams, codec_type) ==
    IF streams = <<>> THEN Ok(NoDict)
    ELSE IF "codec_type" \notin DOMAIN Head(streams) THEN Raise("KeyError")
    ELSE IF Head(streams)["codec_type"] = codec_type THEN Ok(Dict(Head(streams)))
    ELSE first_stream(Tail(streams), codec_type)

get_audio_stream(metadata) ==
    IF "streams" \notin DOMAIN metadata THEN Raise("KeyError")
    ELSE first_stream(metadata["streams"], "audio")

\* dict.get(key): the value, or None.
get(dict, key) == IF key \in DOMAIN dict THEN dict[key] ELSE None

\* metadata.get('streams', [])
get_streams_list(metadata) ==
    IF "streams" \in DOMAIN metadata THEN metadata["streams"] ELSE <<>>

RECURSIVE SelectSeq2(_, _)
SelectSeq2(seq, keep) ==
    IF seq = <<>> THEN <<>>
    ELSE IF keep[1] THEN <<Head(seq)>> \o SelectSeq2(Tail(seq), Tail(keep))
    ELSE SelectSeq2(Tail(seq), Tail(keep))

get_attribute_from_all_streams(metadata, attribute, codec_type) ==
    LET streams == get_streams_list(metadata)
    IN  SelectSeq2([i \in 1..Len(streams) |-> get(streams[i], attribute)],
                   [i \in 1..Len(streams) |->
                       codec_type = None \/ get(streams[i], "codec_type") = codec_type])

get_resolutions(metadata) ==
    LET streams == get_streams_list(metadata)
    IN  SelectSeq2([i \in 1..Len(streams) |->
                       <<get(streams[i], "width"), get(streams[i], "height")>>],
                   [i \in 1..Len(streams) |-> get(streams[i], "codec_type") = "video"])

get_frame_rates(metadata) ==
    get_attribute_from_all_streams(metadata, "r_frame_rate", "video")

get_codecs(metadata, codec_type) ==
    get_attribute_from_all_streams(metadata, "codec_name", codec_type)

get_streams(metadata, codec_type) ==
    LET streams == get_streams_list(metadata)
    IN  SelectSeq2(streams,
                   [i \in 1..Len(streams) |->
                       codec_type = None \/ get(streams[i], "codec_type") = codec_type])

\* The sample rates of the model are integers, which _try_int leaves as they are.
get_sample_rates(metadata) == get_attribute_from_all_streams(metadata, "sample_rate", "audio")

\* Truth values of the arguments of create_params.
truthy_str(value) == value # None /\ value # ""

truthy_frame_rate(raw_value) ==
    CASE raw_value.kind = "none"  -> FALSE
      [] raw_value.kind = "int"   -> raw_value.val # 0
      [] raw_value.kind = "float" -> ~(raw_value.integral /\ raw_value.val = 0)
      [] raw_value.kind = "str"   -> raw_value.chars # <<>>
      [] raw_value.kind = "list"  -> raw_value.items # <<>>
      [] OTHER                    -> TRUE

create_params_parameters ==
    {"container", "resolution", "vcodec", "acodec", "frame_rate", "video_bitrate",
     "audio_bitrate", "scaling_algorithm"}

\* create_params(container, resolution, vcodec, acodec, frame_rate, **keywords):
\* Python raises TypeError when a keyword names no parameter of the function.
create_params(container, resolution, vcodec, acodec, frame_rate, keywords) ==
    IF ~(DOMAIN keywords \subseteq create_params_parameters) THEN Raise("TypeError")
    ELSE LET video_bitrate     == get(keywords, "video_bitrate")
             audio_bitrate     == get(keywords, "audio_bitrate")
             scaling_algorithm == get(keywords, "scaling_algorithm")
             video == IF truthy_str(video_bitrate)
                      THEN ("codec" :> vcodec) @@ ("bitrate" :> video_bitrate)
                      ELSE ("codec" :> vcodec)
             audio == (IF truthy_str(acodec) THEN ("codec" :> acodec) ELSE EmptyDict)
                      @@ (IF truthy_str(audio_bitrate) THEN ("bitrate" :> audio_bitrate)
                          ELSE EmptyDict)
         IN  Ok(("container" :> container) @@ ("video" :> video)
                @@ ("resolution" :> resolution)
                @@ (IF truthy_str(scaling_algorithm)
                    THEN ("scaling_alg" :> scaling_algorithm) ELSE EmptyDict)
                @@ (IF truthy_frame_rate(frame_rate)
                    THEN ("frame_rate" :> frame_rate) ELSE EmptyDict)
                @@ (IF truthy_str(acodec) \/ truthy_str(audio_bitrate)
                    THEN ("audio" :> audio) ELSE EmptyDict))

---------------------------------------------------------------------------
(* commands.py: the streams the replace command would have to strip        *)

find_unsupported_data_streams(metadata) ==
    LET streams == get_streams_list(metadata)
    IN  SelectSeq2([i \in 1..Len(streams) |-> get(streams[i], "index")],
                   [i \in 1..Len(streams) |->
                       /\ get(streams[i], "codec_type") = "data"
                       /\ get(streams[i], "codec_name") \notin DATA_STREAM_WHITELIST])

\* find_unsupported_subtitle_streams without the second operand of line 351-352.
find_unsupported_subtitle_streams_outside_enum(metadata, target_container) ==
    IF target_container = None THEN <<>>
    ELSE LET streams == get_streams_list(metadata)
         IN  SelectSeq2(
                 [i \in 1..Len(streams) |-> get(streams[i], "index")],
                 [i \in 1..Len(streams) |->
                     /\ get(streams[i], "codec_type") = "subtitle"
                     /\ get(streams[i], "codec_name") \notin SubtitleCodec])

find_unsupported_subtitle_streams(metadata, target_container) ==
    IF target_container = None THEN <<>>
    ELSE LET streams == get_streams_list(metadata)
         IN  SelectSeq2(
                 [i \in 1..Len(streams) |-> get(streams[i], "index")],
                 [i \in 1..Len(streams) |->
                     /\ get(streams[i], "codec_type") = "subtitle"
                     /\ \/ get(streams[i], "codec_name") \notin SubtitleCodec
                        \/ select_conversion_for_container(
                               get(streams[i], "codec_name"), target_container) = None])

---------------------------------------------------------------------------
(* commands.py: the renumbering of the streams that stay.  A dict whose     *)
(* iteration order matters is the sequence of its <<key, value>> items in   *)
(* insertion order.                                                         *)

dict_keys(items) == {items[i][1] : i \in DOMAIN items}

list_set(list) == {list[i] : i \in DOMAIN list}

\* sorted(list), of a list of integers.
RECURSIVE sorted(_)
sorted(list) ==
    IF list = <<>> THEN <<>>
    ELSE LET i == CHOOSE i \in 1..Len(list) :
                      \A j \in 1..Len(list) :
                          list[i] < list[j] \/ (list[i] = list[j] /\ i <= j)
         IN  <<list[i]>>
             \o sorted([j \in 1..(Len(list) - 1) |->
                            IF j < i THEN list[j] ELSE list[j + 1]])

\* Lines 396-408: the loop over sorted(removed_indexes).  `keys` is
\* sorted(indexed_map) and keys[position] is current_histogram_index; the
\* iterator moves on while the current key is below the removed index, and
\* the loop ends when the iterator is exhausted.
RECURSIVE fill_removal_histogram(_, _, _, _)
fill_removal_histogram(removal_histogram, keys, position, removed) ==
    IF removed = <<>> THEN removal_histogram
    ELSE LET reached == {p \in position..Len(keys) : keys[p] >= Head(removed)}
         IN  IF reached = {} THEN removal_histogram
             ELSE LET current == CHOOSE p \in reached : \A q \in reached : p <= q
                  IN  fill_removal_histogram(
                          [removal_histogram EXCEPT ![keys[current]] = @ + 1],
                          keys, current, Tail(removed))

\* Lines 413-420: the loop over indexed_map.items().
RECURSIVE reindex(_, _, _, _)
reindex(items, removal_histogram, running_total, reindexed_map) ==
    IF items = <<>> THEN Ok(reindexed_map)
    ELSE LET index == Head(items)[1]
             value == Head(items)[2]
             total == running_total + removal_histogram[index]
         IN  IF ~(total <= index) THEN Raise("AssertionError")
             ELSE IF index - total \in dict_keys(reindexed_map)
             THEN Raise("AssertionError")
             ELSE reindex(Tail(items), removal_histogram, total,
                          Append(reindexed_map, <<index - total, value>>))

adjust_stream_indexes_for_removals(indexed_map, removed_indexes) ==
    IF dict_keys(indexed_map) \cap list_set(removed_indexes) # {}
    THEN Raise("AssertionError")
    ELSE IF ~(\A index \in dict_keys(indexed_map) \cup list_set(removed_indexes) :
                  index >= 0)
    THEN Raise("AssertionError")
    ELSE IF Len(indexed_map) = 0 THEN Ok(<<>>)
    ELSE LET keys == sorted([i \in 1..Len(indexed_map) |-> indexed_map[i][1]])
         IN  reindex(indexed_map,
                     fill_removal_histogram([index \in dict_keys(indexed_map) |-> 0],
                                            keys, 1, sorted(removed_indexes)),
                     0, <<>>)

\* shift_stream_indexes leaving the indexes as they are.
shift_stream_indexes_by_nothing(indexed_map, shift) ==
    IF ~(\A index \in dict_keys(indexed_map) : index + shift >= 0)
    THEN Raise("AssertionError")
    ELSE Ok(indexed_map)

shift_stream_indexes(indexed_map, shift) ==
    IF ~(\A index \in dict_keys(indexed_map) : index + shift >= 0)
    THEN Raise("AssertionError")
    ELSE Ok([i \in DOMAIN indexed_map |->
                <<indexed_map[i][1] + shift, indexed_map[i][2]>>])

\* The items of the dict, in the order of the streams (whose indexes differ).
select_subtitle_conversions(metadata, target_container) ==
    IF target_container = None THEN <<>>
    ELSE LET streams == get_streams_list(metadata)
             conversions ==
                 SelectSeq2(
                     [i \in 1..Len(streams) |->
                         <<get(streams[i], "index"),
                           IF get(streams[i], "codec_name") \in SubtitleCodec
                           THEN select_conversion_for_container(
                                    get(streams[i], "codec_name"), target_container)
                           ELSE None>>],
                     [i \in 1..Len(streams) |->
                         /\ get(streams[i], "codec_type") = "subtitle"
                         /\ get(streams[i], "codec_name") \in SubtitleCodec])
         IN  SelectSeq2(conversions,
                        [i \in 1..Len(conversions) |-> conversions[i][2] # None])

find_stream_indexes(metadata, codec_type) ==
    get_attribute_from_all_streams(metadata, "index", codec_type)

count_streams(metadata, codec_type) == Len(find_stream_indexes(metadata, codec_type))

---------------------------------------------------------------------------
(* commands.py: the command builders.  A command is the list of its         *)
(* arguments.                                                               *)

FFMPEG_COMMAND == "ffmpeg"

FFPROBE_COMMAND == "ffprobe"

\* flatten_list putting the sublists in the reverse order.
RECURSIVE flatten_list_reversed(_)
flatten_list_reversed(list_of_lists) ==
    IF list_of_lists = <<>> THEN <<>>
    ELSE flatten_list_reversed(Tail(list_of_lists)) \o Head(list_of_lists)

RECURSIVE flatten_list(_)
flatten_list(list_of_lists) ==
    IF list_of_lists = <<>> THEN <<>>
    ELSE Head(list_of_lists) \o flatten_list(Tail(list_of_lists))

\* str(value) of a non-negative int, as f"{value}" and "{}".format(value)
\* print it.
RECURSIVE str(_)
str(value) ==
    IF value < 10
    THEN <<"0", "1", "2", "3", "4", "5", "6", "7", "8", "9">>[value + 1]
    ELSE str(value \div 10) \o str(value % 10)

\* str(value) of a frame rate given as an int, a str or a FrameRate.
RECURSIVE join(_)
join(chars) == IF chars = <<>> THEN "" ELSE Head(chars) \o join(Tail(chars))

str_frame_rate(raw_value) ==
    IF raw_value.kind = "int" THEN str(raw_value.val)
    ELSE IF raw_value.kind = "str" THEN join(raw_value.chars)
    ELSE str(raw_value.dividend) \o "/" \o str(raw_value.divisor)

\* FrameRate.__str__, for a rate whose components are non-negative ints.
FrameRate___str__(self) == str(self.dividend) \o "/" \o str(self.divisor)

\* The characters of a str.
list_of_str(string) == [i \in 1..Len(string) |-> SubSeq(string, i, i)]

get_metadata_command(video) ==
    <<FFPROBE_COMMAND, "-v", "quiet", "-print_format", "json", "-show_format",
      "-show_streams", video>>

\* get_metadata_json runs ffprobe on the file; `answer` is what came of it:
\* the metadata printed, or CommandFailed when ffprobe exits with an error.
get_metadata_json(video, answer) ==
    [result |-> answer, executed |-> <<get_metadata_command(video)>>]

\* The character of a str at a position (from 1), and str.rfind: the last
\* position of a character, 0 when it does not occur.
char_at(string, i) == SubSeq(string, i, i)

rfind(string, char) ==
    LET found == {i \in 1..Len(string) : char_at(string, i) = char}
    IN  IF found = {} THEN 0 ELSE CHOOSE i \in found : \A j \in found : j <= i

\* head.rstrip('/')
RECURSIVE rstrip_slashes(_)
rstrip_slashes(string) ==
    IF string # "" /\ char_at(string, Len(string)) = "/"
    THEN rstrip_slashes(SubSeq(string, 1, Len(string) - 1))
    ELSE string

\* os.path.split: <<head, tail>>, the tail what follows the last slash; the
\* slashes that end the head are dropped unless it has only slashes.
os_path_split(path) ==
    LET i == rfind(path, "/")
        head == SubSeq(path, 1, i)
        tail == SubSeq(path, i + 1, Len(path))
    IN  <<IF rstrip_slashes(head) # "" THEN rstrip_slashes(head) ELSE head, tail>>

\* os.path.splitext: <<root, extension>>, the extension from the last dot of
\* the last component on, unless only dots come before it in that component.
os_path_splitext(path) ==
    LET sepIndex == rfind(path, "/")
        dotIndex == rfind(path, ".")
    IN  IF /\ dotIndex > sepIndex
           /\ \E filenameIndex \in (sepIndex + 1)..(dotIndex - 1) :
                  char_at(path, filenameIndex) # "."
        THEN <<SubSeq(path, 1, dotIndex - 1), SubSeq(path, dotIndex, Len(path))>>
        ELSE <<path, "">>

extract_streams_command(input_file, output_file, selected_streams, container) ==
    <<FFMPEG_COMMAND, "-nostdin", "-i", input_file>>
    \o flatten_list([i \in DOMAIN selected_streams |->
                        <<"-map", "0:" \o selected_streams[i]>>])
    \o <<"-codec", "copy">>
    \o (IF container # None THEN <<"-f", container>> ELSE <<>>)
    \o <<output_file>>

\* str.endswith, and string[:-count] (the empty str when count is 0).
endswith(string, suffix) ==
    /\ Len(suffix) <= Len(string)
    /\ SubSeq(string, Len(string) - Len(suffix) + 1, Len(string)) = suffix

startswith(string, prefix) ==
    /\ Len(prefix) <= Len(string)
    /\ SubSeq(string, 1, Len(prefix)) = prefix

without_last(string, count) ==
    IF count = 0 \/ count >= Len(string) THEN ""
    ELSE SubSeq(string, 1, Len(string) - count)

\* str.splitlines for a text whose line breaks are "\n", and "\n".join.
RECURSIVE splitlines(_)
splitlines(text) ==
    LET breaks == {i \in 1..Len(text) : char_at(text, i) = "\n"}
        first == CHOOSE i \in breaks : \A j \in breaks : i <= j
    IN  IF text = "" THEN <<>>
        ELSE IF breaks = {} THEN <<text>>
        ELSE <<SubSeq(text, 1, first - 1)>>
             \o splitlines(SubSeq(text, first + 1, Len(text)))

RECURSIVE join_lines(_)
join_lines(lines) ==
    IF lines = <<>> THEN ""
    ELSE IF Len(lines) = 1 THEN lines[1]
    ELSE lines[1] \o "\n" \o join_lines(Tail(lines))

\* os.path.join of two paths and os.path.dirname.
os_path_join(a, p) ==
    IF startswith(p, "/") THEN p
    ELSE IF a = "" \/ endswith(a, "/") THEN a \o p
    ELSE a \o "/" \o p

os_path_dirname(path) == os_path_split(path)[1]

\* The file system is a function from the paths of the files, as seen from the
\* working directory, to their contents.  A directory exists when a file is
\* below it.
is_directory(fs, path) ==
    path # "" /\ \E file \in DOMAIN fs : startswith(file, path \o "/")

os_path_exists(fs, path) == path \in DOMAIN fs \/ is_directory(fs, path)

\* os.rename of a file on POSIX: the destination, when it is a file, is
\* replaced silently.
os_rename(fs, src, dst) ==
    IF src \notin DOMAIN fs \/ dst = "" THEN Raise("FileNotFoundError")
    ELSE IF is_directory(fs, dst) THEN Raise("IsADirectoryError")
    ELSE Ok([file \in (DOMAIN fs \ {src}) \cup {dst} |->
                IF file = dst THEN fs[src] ELSE fs[file]])

\* The loop of lines 127-146: the outcome, the file system and the list of the
\* new paths after the segments that are left in file_paths.
RECURSIVE rename_segments(_, _, _, _, _)
rename_segments(fs, list_dir, file_paths, suffix, updated_file_list) ==
    IF file_paths = <<>>
    THEN [result |-> Ok(None), files |-> fs, updated_file_list |-> updated_file_list]
    ELSE LET file_path == Head(file_paths)
             full_file_path == os_path_join(list_dir, file_path)
             new_path == without_last(file_path, Len(suffix))
             full_new_path == without_last(full_file_path, Len(suffix))
             renamed == os_rename(fs, full_file_path, full_new_path)
         IN  IF ~endswith(file_path, suffix)
             THEN [result |-> Raise("InvalidCommandOutput"), files |-> fs,
                   updated_file_list |-> updated_file_list]
             ELSE IF os_path_exists(fs, new_path)
             THEN [result |-> Raise("FileAlreadyExists"), files |-> fs,
                   updated_file_list |-> updated_file_list]
             ELSE IF ~renamed.ok
             THEN [result |-> renamed, files |-> fs,
                   updated_file_list |-> updated_file_list]
             ELSE rename_segments(renamed.value, list_dir, Tail(file_paths), suffix,
                                  Append(updated_file_list, new_path))

\* The outcome and the file system after the call.
strip_suffix_from_segments_and_rename_files(fs, output_list_file_path, suffix) ==
    IF output_list_file_path \notin DOMAIN fs
    THEN [result |-> Raise("FileNotFoundError"), files |-> fs]
    ELSE LET file_paths == splitlines(fs[output_list_file_path])
             list_dir == os_path_dirname(output_list_file_path)
             renamed == rename_segments(fs, list_dir, file_paths, suffix, <<>>)
         IN  IF ~renamed.result.ok
             THEN [result |-> renamed.result, files |-> renamed.files]
             ELSE [result |-> Ok(None),
                   files |->
                       [file \in DOMAIN renamed.files \cup {output_list_file_path} |->
                           IF file = output_list_file_path
                           THEN join_lines(renamed.updated_file_list)
                           ELSE renamed.files[file]]]

\* The command and the path of the list file.
split_video_command(input_file, output_list_file, segment_time, container) ==
    LET input_filename == os_path_split(input_file)[2]
        input_basename == os_path_splitext(input_filename)[1]
        extension ==
            os_path_splitext(input_filename)[2]
            \o (IF container # None THEN ".mkv" ELSE "")
        output_dir == os_path_split(output_list_file)[1]
    IN  << <<FFMPEG_COMMAND, "-nostdin", "-i", input_file, "-codec", "copy",
             "-f", "segment">>
           \o (IF container # None THEN <<"-segment_format", container>> ELSE <<>>)
           \o <<"-reset_timestamps", "1",
                "-segment_time", str(segment_time),
                "-segment_list_type", "flat",
                "-segment_list", output_list_file,
                output_dir \o "/" \o input_basename \o "_%d" \o extension>>,
           output_list_file >>

\* The value that follows an option of a command.
option_value(cmd, option) ==
    cmd[(CHOOSE i \in DOMAIN cmd : cmd[i] = option) + 1]

\* The name of a segment: the pattern with its %d replaced by the number.
segment_name(pattern, number) ==
    LET i == rfind(pattern, "%")
    IN  SubSeq(pattern, 1, i - 1) \o str(number) \o SubSeq(pattern, i + 2, Len(pattern))

\* exec_cmd of a command of split_video_command.  ffmpeg's segment muxer is
\* not part of the repository; it is modelled by what its documentation says:
\* the segments are written under the names of the pattern, numbered from 0,
\* and the flat list has the file name of every segment on a line of its own.
\* ffmpeg exits with an error when it cannot read the input.
exec_cmd(fs, cmd, segments) ==
    LET input_file == option_value(cmd, "-i")
        segment_list == option_value(cmd, "-segment_list")
        pattern == cmd[Len(cmd)]
        names == [n \in 1..segments |-> segment_name(pattern, n - 1)]
        written == {names[n] : n \in 1..segments}
        list_text ==
            join_lines([n \in 1..segments |-> os_path_split(names[n])[2]]) \o "\n"
    IN  IF input_file \notin DOMAIN fs
        THEN [result |-> Raise("CommandFailed"), files |-> fs]
        ELSE [result |-> Ok(None),
              files |-> [file \in DOMAIN fs \cup written \cup {segment_list} |->
                            IF file = segment_list THEN list_text
                            ELSE IF file \in written THEN "segment"
                            ELSE fs[file]]]

\* The outcome, the file system after the call and the command that was run.
split(fs, input_file, output_list_file, segment_time, container, segments) ==
    LET command == split_video_command(input_file, output_list_file, segment_time,
                                       container)
        cmd == command[1]
        file_list == command[2]
        ran == exec_cmd(fs, cmd, segments)
        stripped ==
            strip_suffix_from_segments_and_rename_files(ran.files, output_list_file,
                                                        ".mkv")
    IN  IF ~ran.result.ok
        THEN [result |-> ran.result, files |-> ran.files, executed |-> <<cmd>>]
        ELSE IF ~stripped.result.ok
        THEN [result |-> stripped.result, files |-> stripped.files,
              executed |-> <<cmd>>]
        ELSE [result |-> Ok(file_list), files |-> stripped.files, executed |-> <<cmd>>]

split_video(fs, input_file, output_dir, split_len, container, segments) ==
    LET filename == os_path_split(input_file)[2]
        basename == os_path_splitext(filename)[1]
        output_list_file == os_path_join(output_dir, basename \o "-segment-list.txt")
    IN  split(fs, input_file, output_list_file, split_len, container, segments)

\* The command and the path of the list of the files to merge.
merge_videos_command(input_file, output, container) ==
    << <<FFMPEG_COMMAND, "-nostdin", "-f", "concat", "-safe", "0", "-i", input_file,
         "-c", "copy">>
       \o (IF container # None THEN <<"-f", container>> ELSE <<>>)
       \o <<output>>,
       input_file >>

compute_psnr_command(video, reference_video, psnr_frames_file) ==
    <<FFMPEG_COMMAND, "-nostdin", "-i", video, "-i", reference_video, "-lavfi",
      "psnr=" \o psnr_frames_file, "-f", "null", "-">>

compute_ssim_command(video, reference_video, ssim_frames_file) ==
    <<FFMPEG_COMMAND, "-nostdin", "-i", video, "-i", reference_video, "-lavfi",
      "ssim=" \o ssim_frames_file, "-f", "null", "-">>

get_query_muxer_info_command(muxer) ==
    <<FFMPEG_COMMAND, "-nostdin", "-hide_banner", "-h", "muxer=" \o muxer>>

get_query_encoder_info_command(encoder) ==
    <<FFMPEG_COMMAND, "-nostdin", "-hide_banner", "-h", "encoder=" \o encoder>>

\* The lines of a text as a regular expression with re.MULTILINE sees them:
\* what lies between the line breaks.
RECURSIVE regex_lines(_)
regex_lines(text) ==
    LET breaks == {i \in 1..Len(text) : char_at(text, i) = "\n"}
        first == CHOOSE i \in breaks : \A j \in breaks : i <= j
    IN  IF breaks = {} THEN <<text>>
        ELSE <<SubSeq(text, 1, first - 1)>>
             \o regex_lines(SubSeq(text, first + 1, Len(text)))

\* A string without the whitespace (\s) that starts it.
RECURSIVE skip_whitespace(_)
skip_whitespace(string) ==
    IF string # "" /\ char_at(string, 1) \in {" ", "\t"}
    THEN skip_whitespace(SubSeq(string, 2, Len(string)))
    ELSE string

\* The match of the expression of lines 683-689 on one line: the list of the
\* captured codec name, empty when the line does not match.  The label starts
\* the line after whitespace, its two blanks are optional; the name ends with
\* the last character that is neither whitespace nor a dot, and at most one dot
\* may follow it.
match_default_audio_codec(line) ==
    LET labels == {"Default audio codec:", "Default audiocodec:",
                   "Defaultaudio codec:", "Defaultaudiocodec:"}
        stripped == skip_whitespace(line)
        found == {label \in labels : startswith(stripped, label)}
        label == CHOOSE l \in found : TRUE
        rest == skip_whitespace(SubSeq(stripped, Len(label) + 1, Len(stripped)))
        solid == {i \in 1..Len(rest) : char_at(rest, i) \notin {" ", "\t", "."}}
        last == IF solid = {} THEN 0 ELSE CHOOSE i \in solid : \A j \in solid : j <= i
        dots == {i \in (last + 1)..Len(rest) : char_at(rest, i) = "."}
    IN  IF found = {} THEN <<>>
        ELSE IF Cardinality(dots) <= 1 THEN <<SubSeq(rest, 1, last)>>
        ELSE <<>>

_parse_default_audio_codec_out_of_muxer_info(muxer_info) ==
    flatten_list([i \in DOMAIN regex_lines(muxer_info) |->
                     match_default_audio_codec(regex_lines(muxer_info)[i])])

\* exec_cmd_to_string: the command is run; its output, or CommandFailed when
\* ffmpeg returns an error code.
exec_cmd_to_string(cmd, answer) == [result |-> answer, executed |-> <<cmd>>]

\* query_muxer_info taking the first of several default audio codecs.
query_muxer_info_taking_first(muxer, answer) ==
    LET muxer_info == exec_cmd_to_string(get_query_muxer_info_command(muxer), answer)
        audio_codecs == _parse_default_audio_codec_out_of_muxer_info(muxer_info.result.value)
    IN  [result |->
             IF ~muxer_info.result.ok THEN muxer_info.result
             ELSE IF Len(audio_codecs) = 0 THEN Ok(EmptyDict)
             ELSE Ok([default_audio_codec |-> audio_codecs[1]]),
         executed |-> muxer_info.executed]

\* The outcome of the call and the commands it has run.
query_muxer_info(muxer, answer) ==
    LET muxer_info == exec_cmd_to_string(get_query_muxer_info_command(muxer), answer)
        audio_codecs == _parse_default_audio_codec_out_of_muxer_info(muxer_info.result.value)
    IN  [result |->
             IF ~muxer_info.result.ok THEN muxer_info.result
             ELSE IF Len(audio_codecs) = 0 THEN Ok(EmptyDict)
             ELSE IF Len(audio_codecs) >= 2 THEN Raise("NoMatchingEncoder")
             ELSE Ok([default_audio_codec |-> audio_codecs[1]]),
         executed |-> muxer_info.executed]

_VIDEO_ENCODERS ==
    [av1 |-> None, flv1 |-> "flv", h263 |-> "h263", h264 |-> "libx264",
     h265 |-> "libx265", hevc |-> "libx265", mjpeg |-> "mjpeg",
     mpeg1video |-> "mpeg1video", mpeg2video |-> "mpeg2video", mpeg4 |-> "libxvid",
     msmpeg4v2 |-> "msmpeg4v2", theora |-> "libtheora", vp8 |-> "libvpx",
     vp9 |-> "libvpx-vp9", wmv1 |-> "wmv1", wmv2 |-> "wmv2", wmv3 |-> None]

VideoCodec_get_encoder(codec) ==
    IF codec \in DOMAIN _VIDEO_ENCODERS THEN _VIDEO_ENCODERS[codec] ELSE codec

get_video_encoder(target_codec) ==
    IF target_codec \notin VideoCodec THEN Raise("UnsupportedVideoCodec")
    ELSE Ok(VideoCodec_get_encoder(target_codec))

_PRESERVE_QUALITY_COMMAND ==
    [h264 |-> <<"-crf", "22">>, h265 |-> <<"-crf", "22">>,
     vp8 |-> <<"-crf", "22", "-b:v", "0">>, vp9 |-> <<"-crf", "22", "-b:v", "0">>]

preserve_quality_command(target_codec) ==
    IF target_codec \in DOMAIN _PRESERVE_QUALITY_COMMAND
    THEN _PRESERVE_QUALITY_COMMAND[target_codec]
    ELSE <<>>

get_audio_encoder(target_codec) ==
    IF target_codec \notin AudioCodec THEN Raise("UnsupportedAudioCodec")
    ELSE Ok(AudioCodec_get_encoder(target_codec))

\* Lines 214-223 and 237-266 of transcode_video_command.
transcode_video_command_from_targs(track, output_file, targs) ==
    LET has_codec == "video" \in DOMAIN targs /\ "codec" \in DOMAIN targs["video"]
        encoder == get_video_encoder(targs["video"]["codec"])
    IN  IF has_codec /\ ~encoder.ok THEN encoder
        ELSE Ok(<<FFMPEG_COMMAND, "-nostdin", "-i", track>>
                \o (IF "container" \in DOMAIN targs THEN <<"-f", targs["container"]>>
                    ELSE <<>>)
                \o (IF has_codec
                    THEN <<"-c:v", encoder.value>>
                         \o preserve_quality_command(targs["video"]["codec"])
                    ELSE <<>>)
                \o (IF "frame_rate" \in DOMAIN targs
                    THEN <<"-r", str_frame_rate(targs["frame_rate"])>>
                    ELSE <<>>)
                \o (IF "video" \in DOMAIN targs /\ "bitrate" \in DOMAIN targs["video"]
                    THEN <<"-b:v", targs["video"]["bitrate"]>>
                    ELSE <<>>)
                \o (IF "resolution" \in DOMAIN targs
                    THEN <<"-vf", "scale=" \o str(targs["resolution"][1]) \o ":"
                                  \o str(targs["resolution"][2])>>
                    ELSE <<>>)
                \o (IF "scaling_alg" \in DOMAIN targs
                    THEN <<"-sws_flags", targs["scaling_alg"]>>
                    ELSE <<>>)
                \o <<output_file>>)

transcode_video_command(track, output_file, targs) ==
    IF "audio" \in DOMAIN targs THEN Raise("InvalidArgument")
    ELSE transcode_video_command_from_targs(track, output_file, targs)

VALID_STREAM_TYPES == [v |-> "video", V |-> "video", a |-> "audio"]

\* Lines 514-572: the command, from the metadata of the two files.
replace_streams_command_from_metadata(input_file, replacement_source, output_file, stream_type, targs, container, strip_unsupported_data_streams, strip_unsupported_subtitle_streams, input_metadata, replacement_metadata) ==
    LET data_streams_to_strip ==
            IF strip_unsupported_data_streams
            THEN find_unsupported_data_streams(input_metadata)
            ELSE <<>>
        data_map_options ==
            [i \in DOMAIN data_streams_to_strip |->
                <<"-map", "-0:" \o str(data_streams_to_strip[i])>>]
        subtitle_streams_to_strip ==
            IF strip_unsupported_subtitle_streams
            THEN find_unsupported_subtitle_streams(input_metadata, container)
            ELSE <<>>
        subtitle_map_options ==
            [i \in DOMAIN subtitle_streams_to_strip |->
                <<"-map", "-0:" \o str(subtitle_streams_to_strip[i])>>]
        adjusted ==
            adjust_stream_indexes_for_removals(
                select_subtitle_conversions(input_metadata, container),
                data_streams_to_strip \o subtitle_streams_to_strip
                \o find_stream_indexes(input_metadata, VALID_STREAM_TYPES[stream_type]))
        subtitle_codec_map ==
            shift_stream_indexes(
                adjusted.value,
                count_streams(replacement_metadata, VALID_STREAM_TYPES[stream_type]))
        subtitle_codec_options ==
            [i \in DOMAIN subtitle_codec_map.value |->
                <<"-codec:" \o str(subtitle_codec_map.value[i][1]),
                  subtitle_codec_map.value[i][2]>>]
        audio == IF "audio" \in DOMAIN targs THEN targs["audio"] ELSE EmptyDict
        encoder == get_audio_encoder(audio["codec"])
    IN  IF ~adjusted.ok THEN adjusted
        ELSE IF ~subtitle_codec_map.ok THEN subtitle_codec_map
        ELSE IF "codec" \in DOMAIN audio /\ ~encoder.ok THEN encoder
        ELSE Ok(<<FFMPEG_COMMAND, "-nostdin", "-i", input_file,
                  "-i", replacement_source,
                  "-map", "1:" \o stream_type,
                  "-map", "0",
                  "-map", "-0:" \o stream_type>>
                \o flatten_list(data_map_options)
                \o flatten_list(subtitle_map_options)
                \o flatten_list(subtitle_codec_options)
                \o <<"-copy_unknown", "-c:v", "copy", "-c:d", "copy">>
                \o (IF container # None THEN <<"-f", container>> ELSE <<>>)
                \o (IF "codec" \in DOMAIN audio THEN <<"-c:a", encoder.value>>
                    ELSE <<>>)
                \o (IF "bitrate" \in DOMAIN audio THEN <<"-b:a", audio["bitrate"]>>
                    ELSE <<>>)
                \o <<output_file>>)

\* Lines 511-512 and what follows: ffprobe is run on the input file, then on
\* the replacement source; the command is built when both have answered.
replace_streams_command_probing(input_file, replacement_source, output_file, stream_type, targs, container, strip_unsupported_data_streams, strip_unsupported_subtitle_streams, input_answer, replacement_answer) ==
    LET input_metadata == get_metadata_json(input_file, input_answer)
        replacement_metadata == get_metadata_json(replacement_source, replacement_answer)
    IN  IF ~input_metadata.result.ok
        THEN [result |-> input_metadata.result, executed |-> input_metadata.executed]
        ELSE IF ~replacement_metadata.result.ok
        THEN [result |-> replacement_metadata.result,
              executed |-> input_metadata.executed \o replacement_metadata.executed]
        ELSE [result |->
                  replace_streams_command_from_metadata(
                      input_file, replacement_source, output_file, stream_type, targs,
                      container, strip_unsupported_data_streams,
                      strip_unsupported_subtitle_streams,
                      input_metadata.result.value, replacement_metadata.result.value),
              executed |-> input_metadata.executed \o replacement_metadata.executed]

\* replace_streams_command without lines 500-509.
replace_streams_command_accepting_video(input_file, replacement_source, output_file, stream_type, targs, container, strip_unsupported_data_streams, strip_unsupported_subtitle_streams, input_answer, replacement_answer) ==
    IF stream_type \notin DOMAIN VALID_STREAM_TYPES
    THEN [result |-> Raise("InvalidArgument"), executed |-> <<>>]
    ELSE replace_streams_command_probing(
             input_file, replacement_source, output_file, stream_type, targs, container,
             strip_unsupported_data_streams, strip_unsupported_subtitle_streams,
             input_answer, replacement_answer)

\* The command returned or the exception raised, and the commands executed on
\* the way.
replace_streams_command(input_file, replacement_source, output_file, stream_type, targs, container, strip_unsupported_data_streams, strip_unsupported_subtitle_streams, input_answer, replacement_answer) ==
    IF stream_type \notin DOMAIN VALID_STREAM_TYPES
    THEN [result |-> Raise("InvalidArgument"), executed |-> <<>>]
    ELSE IF "video" \in DOMAIN targs
    THEN [result |-> Raise("InvalidArgument"), executed |-> <<>>]
    ELSE replace_streams_command_probing(
             input_file, replacement_source, output_file, stream_type, targs, container,
             strip_unsupported_data_streams, strip_unsupported_subtitle_streams,
             input_answer, replacement_answer)

---------------------------------------------------------------------------
(* validation.py: the single checks.  Each returns "True" or the name of   *)
(* the exception it raises.                                                *)

validate_format(video_format) ==
    IF video_format \notin list_supported_formats THEN "UnsupportedVideoFormat"
    ELSE "True"

\* validate_target_format without lines 161-162.
validate_target_format_as_source_format(video_format) == validate_format(video_format)

validate_target_format(video_format) ==
    IF validate_format(video_format) # "True" THEN validate_format(video_format)
    ELSE IF is_exclusive_demuxer(video_format) THEN "UnsupportedTargetVideoFormat"
    ELSE "True"

validate_unsupported_data_streams(metadata, strip_unsupported_data_streams) ==
    LET unsupported_data_streams == find_unsupported_data_streams(metadata)
    IN  IF ~strip_unsupported_data_streams /\ Len(unsupported_data_streams) # 0
        THEN "UnsupportedStream"
        ELSE "True"

validate_unsupported_subtitle_streams(metadata, strip_unsupported_subtitle_streams, target_container) ==
    IF target_container = None THEN "InvalidVideo"
    ELSE LET unsupported_subtitle_streams ==
                 find_unsupported_subtitle_streams(metadata, target_container)
         IN  IF /\ ~strip_unsupported_subtitle_streams
                /\ Len(unsupported_subtitle_streams) # 0
             THEN "UnsupportedSubtitleCodecConversion"
             ELSE "True"

validate_video_codec(video_format, video_codec) ==
    IF ~is_supported_video_codec(video_format, video_codec) THEN "UnsupportedVideoCodec"
    ELSE "True"

validate_audio_codec(video_format, audio_codec) ==
    IF ~is_supported_audio_codec(video_format, audio_codec) THEN "UnsupportedAudioCodec"
    ELSE "True"

validate_video_codec_conversion(src_codec, dst_codec) ==
    IF src_codec \notin VideoCodec THEN "UnsupportedVideoCodec"
    ELSE IF dst_codec \notin VideoCodec_get_supported_conversions(src_codec)
    THEN "UnsupportedVideoCodecConversion"
    ELSE "True"

\* query_encoder_info runs ffmpeg; `dest_encoder_info` is what it answers: the
\* name of the exception it raises, or the dict it returns.
validate_audio_sample_rate(source_sample_rates, dest_encoder_info) ==
    IF source_sample_rates = None THEN "True"
    ELSE IF ~dest_encoder_info.ok THEN dest_encoder_info.error
    \* set(None)
    ELSE IF "sample_rates" \notin DOMAIN dest_encoder_info.value THEN "TypeError"
    ELSE IF \E i \in 1..Len(source_sample_rates) :
                source_sample_rates[i] \notin dest_encoder_info.value["sample_rates"]
    THEN "UnsupportedSampleRate"
    ELSE "True"

_get_src_audio_codec(src_params) ==
    IF "audio" \in DOMAIN src_params THEN get(src_params["audio"], "codec") ELSE None

_get_dst_audio_codec(dst_params, dst_muxer_info) ==
    IF "format" \notin DOMAIN dst_params THEN Raise("KeyError")
    ELSE IF dst_params["format"] \notin Container THEN Raise("UnsupportedVideoFormat")
    ELSE IF is_exclusive_demuxer(dst_params["format"]) THEN Raise("AssertionError")
    ELSE IF "audio" \in DOMAIN dst_params /\ get(dst_params["audio"], "codec") # None
    THEN Ok(dst_params["audio"]["codec"])
    ELSE IF dst_muxer_info.is_none THEN Ok(None)
    ELSE Ok(get(dst_muxer_info.dict, "default_audio_codec"))

---------------------------------------------------------------------------
(* validation.py: validate_transcoding_params                              *)

\* Lines 102-131: the audio checks.
validate_transcoding_params_audio(src_params, dst_params, src_metadata, dst_muxer_info, dest_encoder_info) ==
    LET src_audio_codec == _get_src_audio_codec(src_params)
        audio_stream == get_audio_stream(src_metadata)
        dest_audio_codec == _get_dst_audio_codec(dst_params, dst_muxer_info)
    IN  IF ~audio_stream.ok THEN audio_stream.error
        ELSE IF src_audio_codec = None THEN "True"
        ELSE IF validate_audio_codec(src_params["format"], src_audio_codec) # "True"
        THEN validate_audio_codec(src_params["format"], src_audio_codec)
        ELSE IF ~dest_audio_codec.ok THEN dest_audio_codec.error
        ELSE IF dest_audio_codec.value # None
        THEN IF validate_audio_codec(dst_params["format"], dest_audio_codec.value) # "True"
             THEN validate_audio_codec(dst_params["format"], dest_audio_codec.value)
             ELSE IF validate_audio_codec_conversion(
                         src_audio_codec, dest_audio_codec.value,
                         audio_stream.value.dict) # "True"
             THEN validate_audio_codec_conversion(
                      src_audio_codec, dest_audio_codec.value, audio_stream.value.dict)
             ELSE validate_audio_sample_rate(
                      get(src_params["audio"], "sample_rates"), dest_encoder_info)
        ELSE IF ~dst_muxer_info.is_none THEN "UnsupportedAudioCodecConversion"
        ELSE "True"

\* Lines 90-145: the checks, in the order of the code, on the src_params that
\* create_params returned.
validate_transcoding_params_checks(src_params, dst_params, src_metadata, dst_muxer_info, strip_unsupported_data_streams, strip_unsupported_subtitle_streams, dest_encoder_info) ==
    IF "format" \notin DOMAIN src_params THEN "KeyError"
    ELSE IF validate_format(src_params["format"]) # "True"
    THEN validate_format(src_params["format"])
    ELSE IF "format" \notin DOMAIN dst_params THEN "KeyError"
    ELSE IF validate_target_format(dst_params["format"]) # "True"
    THEN validate_target_format(dst_params["format"])
    ELSE IF validate_video_codec(src_params["format"], src_params["video"]["codec"])
            # "True"
    THEN validate_video_codec(src_params["format"], src_params["video"]["codec"])
    ELSE IF "video" \notin DOMAIN dst_params THEN "KeyError"
    ELSE IF "codec" \notin DOMAIN dst_params["video"] THEN "KeyError"
    ELSE IF validate_video_codec(dst_params["format"], dst_params["video"]["codec"])
            # "True"
    THEN validate_video_codec(dst_params["format"], dst_params["video"]["codec"])
    ELSE IF validate_video_codec_conversion(
                src_params["video"]["codec"], dst_params["video"]["codec"]) # "True"
    THEN validate_video_codec_conversion(
             src_params["video"]["codec"], dst_params["video"]["codec"])
    ELSE IF validate_transcoding_params_audio(
                src_params, dst_params, src_metadata, dst_muxer_info,
                dest_encoder_info) # "True"
    THEN validate_transcoding_params_audio(
             src_params, dst_params, src_metadata, dst_muxer_info, dest_encoder_info)
    ELSE IF "resolution" \notin DOMAIN dst_params THEN "KeyError"
    ELSE IF validate_resolution(src_params["resolution"], dst_params["resolution"])
            # "True"
    THEN validate_resolution(src_params["resolution"], dst_params["resolution"])
    ELSE IF validate_frame_rate(
                dst_params,
                IF "frame_rate" \in DOMAIN src_params THEN src_params["frame_rate"]
                ELSE RawNone) # "True"
    THEN validate_frame_rate(
             dst_params,
             IF "frame_rate" \in DOMAIN src_params THEN src_params["frame_rate"]
             ELSE RawNone)
    ELSE IF validate_unsupported_data_streams(
                src_metadata, strip_unsupported_data_streams) # "True"
    THEN validate_unsupported_data_streams(src_metadata, strip_unsupported_data_streams)
    ELSE validate_unsupported_subtitle_streams(
             src_metadata, strip_unsupported_subtitle_streams, dst_params["format"])

\* Lines 82-88 evaluate the arguments of create_params from left to right and
\* call it with the keyword sample_rates; the checks run on what it returns.
\* `dest_encoder_info` is what ffmpeg would answer to query_encoder_info.
validate_transcoding_params(dst_params, src_metadata, dst_muxer_info, strip_unsupported_data_streams, strip_unsupported_subtitle_streams, dest_encoder_info) ==
    LET format     == get_format(src_metadata)
        resolution == get_resolution(src_metadata)
        vcodec     == get_video_codec(src_metadata)
        acodec     == get_audio_codec(src_metadata)
        frame_rate == get_frame_rate(src_metadata)
    IN  IF ~format.ok THEN format.error
        ELSE IF ~resolution.ok THEN resolution.error
        ELSE IF ~vcodec.ok THEN vcodec.error
        ELSE IF ~acodec.ok THEN acodec.error
        ELSE IF ~frame_rate.ok THEN frame_rate.error
        ELSE LET src_params ==
                     create_params(format.value, resolution.value, vcodec.value,
                                   acodec.value, frame_rate.value,
                                   "sample_rates" :> get_sample_rates(src_metadata))
             IN  IF ~src_params.ok THEN src_params.error
                 ELSE validate_transcoding_params_checks(
                          src_params.value, dst_params, src_metadata, dst_muxer_info,
                          strip_unsupported_data_streams,
                          strip_unsupported_subtitle_streams, dest_encoder_info)

---------------------------------------------------------------------------
(* The inputs of the model.                                                *)

\* Frame rates as ffprobe prints them and as callers write them.
FrameRateStrings ==
    { RawStr(<<"1", "2", "2">>),
      RawStr(<<"6", "1">>),
      RawStr(<<"1", "2", "1", "/", "2">>),
      RawStr(<<"2", "5", "/", "2">>),
      RawStr(<<"5", "0", "/", "4">>),
      RawStr(<<"6", "0", "/", "2">>),
      RawStr(<<"3", "0">>),
      RawStr(<<"6", "0">>),
      RawStr(<<"3", "0", ".", "5">>),
      RawStr(<<>>),
      RawStr(<<"a", "b", "c">>),
      RawStr(<<"3", "0", "/", "0">>),
      RawStr(<<"0", "/", "0">>),
      RawStr(<<"3", "3">>),
      RawStr(<<"2", "4", "0", "0", "0", "/", "1", "0", "0", "1">>),
      RawStr(<<"3", "0", "/", "3", "0", "/", "3", "0">>),
      RawStr(<<" ", "6", "0", " ">>),
      RawStr(<<"6", "_", "0">>),
      RawStr(<<"+", "6", "0">>),
      RawStr(<<"-", "3", "0">>),
      RawStr(<<"0">>),
      RawStr(<<"2", "4", "4", "/", "2">>),
      RawStr(<<"4", "4", "/", "2">>),
      RawStr(<<"1", "0", "0", "0", "0", "0">>),
      RawStr(<<"1", "2", "/", "-", "1">>) }

RawFrameRates ==
    {RawNone, RawFloatInf, RawFloatNan}
    \cup FrameRateStrings
    \cup {RawInt(i) : i \in {0 - 30, 0, 12, 30, 33, 60, 61, 122, 1000}}
    \cup {RawFloat(30, TRUE), RawFloat(30, FALSE), RawFloat(0 - 1, TRUE), RawFloat(0, TRUE)}
    \cup {RawList(<<RawInt(30), RawInt(1)>>), RawList(<<>>), RawList(<<RawInt(60), RawInt(2)>>),
          RawList(<<RawInt(30), RawInt(1), RawInt(30)>>), RawList(<<RawInt(10), RawInt(0)>>),
          RawList(<<RawInt(0 - 10), RawInt(10)>>), RawList(<<RawFloat(30, TRUE)>>),
          RawList(<<RawInt(25)>>)}
    \cup {RawFrameRate(60, 1), RawFrameRate(120, 2), RawFrameRate(25, 2),
          RawFrameRate(61, 1), RawFrameRate(30, 0), RawFrameRate(0 - 30, 1)}

DstVideoCodecs == {"h264", "mpeg1video", "mpeg2video", None}

\* The decoded source rates given to _guess_target_frame_rate.
SrcFrameRates == {FrameRate(n, d) : n \in 0..MaxDividend, d \in 1..MaxDivisor}

\* Destination parameters of validate_frame_rate: a video codec and, or not,
\* an explicit frame rate.
FrameRateDstParams ==
    {create_params("mp4", <<1920, 1080>>, c, None, RawNone, EmptyDict).value :
         c \in DstVideoCodecs}
    \cup {create_params("mp4", <<1920, 1080>>, c, None, RawNone, EmptyDict).value
          @@ ("frame_rate" :> raw) : c \in DstVideoCodecs, raw \in RawFrameRates}

Resolutions ==
    {<<0, 0>>, <<0, 5>>, <<1920, 1080>>, <<1280, 720>>, <<1366, 768>>, <<1360, 768>>,
     <<854, 480>>, <<426, 240>>, <<2560, 1080>>, <<3440, 1440>>, <<1280, 1024>>,
     <<333, 333>>, <<333, 666>>, <<666, 1332>>, <<3840, 2160>>, <<683, 384>>,
     <<64, 27>>, <<21, 9>>, <<16, 9>>, <<640, 480>>, <<800, 600>>, <<5, 4>>}

SrcAudioCodecs == AudioCodec \cup {"bla"}

DstAudioCodecs == AudioCodec \cup {"bla", None}

\* The audio stream of the source: its channel count, or no such field.
AudioStreams ==
    {[codec_type |-> "audio", codec_name |-> "mp3"]}
    \cup {[codec_type |-> "audio", codec_name |-> "mp3", channels |-> n] :
              n \in 0..MaxChannels}

SampleRates ==
    {0, 1, 2, 999, 1000, 5000, 7350, 8000, 24000, 44100, 48000, 48001, 96000, 200000,
     200001}

EncoderInfos ==
    {NoDict, Dict(EmptyDict), Dict("sample_rates" :> {48000}),
     Dict("sample_rates" :> {44100}), Dict("sample_rates" :> {}),
     Dict("sample_rates" :> {5000, 24000})}

\* The streams of a probed file.
VideoStream(index, codec_name, resolution, r_frame_rate) ==
    [index |-> index, codec_type |-> "video", codec_name |-> codec_name,
     width |-> resolution[1], height |-> resolution[2], r_frame_rate |-> r_frame_rate]

AudioStream(index, codec_name, channels, sample_rate) ==
    [index |-> index, codec_type |-> "audio", codec_name |-> codec_name,
     channels |-> channels, sample_rate |-> sample_rate]

OtherStream(index, codec_type, codec_name) ==
    [index |-> index, codec_type |-> codec_type, codec_name |-> codec_name]

Metadata(format_name, streams) ==
    [format |-> [format_name |-> format_name, duration |-> "10"], streams |-> streams]

s_122 == RawStr(<<"1", "2", "2">>)

s_33 == RawStr(<<"3", "3">>)

s_30 == RawStr(<<"3", "0", "/", "1">>)

SrcMetadata ==
    { Metadata("mov", <<VideoStream(0, "mpeg1video", <<1920, 1080>>, s_122),
                        AudioStream(1, "aac", 2, 44100)>>),
      Metadata("mp4", <<VideoStream(0, "h264", <<1920, 1080>>, RawInt(60)),
                        AudioStream(1, "mp3", 2, 44100)>>),
      Metadata("mp4", <<VideoStream(0, "h264", <<1920, 1080>>, s_30),
                        VideoStream(1, "h264", <<640, 480>>, s_30),
                        AudioStream(2, "aac", 2, 48000)>>),
      Metadata("jpg", <<VideoStream(0, "h264", <<1920, 1080>>, s_30),
                        AudioStream(1, "aac", 2, 44100)>>),
      Metadata("mp4", <<VideoStream(0, "h264", <<1280, 1024>>, s_33),
                        AudioStream(1, "aac", 2, 44100)>>),
      Metadata("mp4", <<VideoStream(0, "h264", <<1920, 1080>>, s_30)>>),
      Metadata("mp4", <<AudioStream(0, "aac", 6, 44100),
                        VideoStream(1, "h264", <<1920, 1080>>, s_30),
                        OtherStream(2, "data", "bin_data"),
                        OtherStream(3, "data", "tmcd"),
                        OtherStream(4, "subtitle", "mov_text"),
                        OtherStream(5, "subtitle", "dvd_subtitle")>>),
      Metadata("mp4", <<AudioStream(0, "aac", 2, 44100)>>),
      Metadata("mp4", <<[index |-> 0, codec_name |-> "h264"]>>),
      [streams |-> <<VideoStream(0, "h264", <<1920, 1080>>, s_30)>>],
      [format |-> [format_name |-> "mp4"]] }

\* Destination parameters as create_params builds them, and as callers of the
\* checks write them by hand (with the key "format", or with no video codec).
DstParams ==
    { create_params("mov", <<1920, 1080>>, "mpeg1video", "aac", RawNone, EmptyDict).value,
      create_params("mp4", <<1920, 1080>>, "h264", None, RawNone, EmptyDict).value,
      create_params("mp4", <<1920, 1080>>, "h264", "aac", RawNone, EmptyDict).value,
      create_params("mpeg", <<1920, 1080>>, "mpeg1video", None, RawNone, EmptyDict).value,
      create_params(c_QUICK_TIME_DEMUXER, <<1920, 1080>>, "h264", "aac", RawNone,
                    EmptyDict).value,
      create_params("mp4", <<1920, 1080>>, "h264", "aac", RawInt(30), EmptyDict).value,
      create_params("mp4", <<1920, 1080>>, None, "aac", RawNone, EmptyDict).value,
      ("container" :> "mp4") @@ ("resolution" :> <<1920, 1080>>)
          @@ ("video" :> EmptyDict) @@ ("audio" :> ("codec" :> "aac")),
      ("format" :> "mp4") @@ ("resolution" :> <<1920, 1080>>)
          @@ ("video" :> ("codec" :> "h264")) @@ ("audio" :> ("codec" :> "aac")) }

MuxerInfos ==
    {NoDict, Dict(EmptyDict), Dict("default_audio_codec" :> "aac"),
     Dict("default_audio_codec" :> "unsupported_audio_codec")}

\* What ffmpeg answers to query_encoder_info.
EncoderInfoAnswers ==
    {Ok(EmptyDict), Ok("sample_rates" :> {44100, 48000}), Raise("InvalidSampleRateInfo")}

CreateParamsKeywords ==
    {EmptyDict, "video_bitrate" :> "1000k", "audio_bitrate" :> "128k",
     "scaling_algorithm" :> "bicubic", "sample_rates" :> <<44100>>}

\* Names given where a container is expected: the containers, and names that
\* are none.
VideoFormats == Container \cup {"jpg", "MP4", "", None}

\* The streams of the files given to the stream checks: codec_type and
\* codec_name.
StreamKinds ==
    {<<"video", "h264">>, <<"audio", "aac">>, <<"data", "bin_data">>,
     <<"data", "tmcd">>, <<"subtitle", "subrip">>, <<"subtitle", "dvd_subtitle">>}

\* ffprobe numbers the streams of a file from 0.
ProbedStreams(kinds) ==
    [i \in 1..Len(kinds) |-> OtherStream(i - 1, kinds[i][1], kinds[i][2])]

StreamMetadata ==
    {Metadata("mp4", ProbedStreams(kinds)) :
         kinds \in UNION {[1..n -> StreamKinds] : n \in 0..MaxStreams}}
    \cup { [format |-> [format_name |-> "mp4"]],
           Metadata("mp4", <<[index |-> 0, codec_type |-> "data"],
                             [index |-> 1, codec_type |-> "subtitle"]>>),
           Metadata("mp4", <<[index |-> 0, codec_name |-> "tmcd"],
                             [index |-> 1, codec_name |-> "dvd_subtitle"]>>) }

TargetContainers ==
    {None, "jpg", "mp4", "matroska", "webm", "avi", "f4v", c_MATROSKA_WEBM_DEMUXER}

\* Maps from stream indexes to values, as the sequence of their items in
\* insertion order: every order of every set of at most MaxMapSize indexes, and
\* the map of the test of the function.
IndexedMaps ==
    {[i \in DOMAIN keys |-> <<keys[i], <<"A", "B", "C", "D">>[i]>>] :
         keys \in {k \in UNION {[1..n -> 0..MaxIndex] : n \in 0..MaxMapSize} :
                      \A i, j \in DOMAIN k : i # j => k[i] # k[j]}}
    \cup {<<<<4, "A">>, <<7, "B">>, <<9, "C">>>>}

\* Lists of removed indexes, in any order and with repetitions; the list of
\* the test of the function, and a list with a negative index.
RemovedIndexes ==
    UNION {[1..n -> 0..(MaxIndex + 1)] : n \in 0..MaxRemoved}
    \cup {<<10, 1, 0, 5, 8>>, <<-1>>}

\* The files of a replace request, as the tests name them.
c_input_file == "input.mp4"

c_replacement_source == "input[video-only].mkv"

c_output_file == "output.mkv"

\* A file as ffprobe lists it, with streams of every kind before and between
\* its subtitle streams.
LongMetadata ==
    Metadata("mp4", ProbedStreams(<<<<"video", "h264">>, <<"data", "tmcd">>,
                                    <<"subtitle", "subrip">>,
                                    <<"subtitle", "dvd_subtitle">>, <<"audio", "aac">>,
                                    <<"subtitle", "mov_text">>, <<"data", "bin_data">>,
                                    <<"subtitle", "ass">>>>))

\* Files whose streams are listed in another order than that of their indexes:
\* every order of the indexes 0, 1, 2 for every choice of three streams.
ShuffledKinds ==
    {<<"video", "h264">>, <<"audio", "aac">>, <<"data", "bin_data">>,
     <<"subtitle", "subrip">>}

ShuffledMetadata ==
    {Metadata("mp4", [i \in 1..3 |-> OtherStream(order[i] - 1, kinds[i][1], kinds[i][2])]) :
         kinds \in [1..3 -> ShuffledKinds], order \in Permutations(1..3)}

\* What ffprobe prints for the input file of a replace request.
ReplaceInputMetadata ==
    {Metadata("mp4", ProbedStreams(kinds)) :
         kinds \in UNION {[1..n -> StreamKinds] : n \in 0..MaxStreams}}
    \cup {LongMetadata}
    \cup ShuffledMetadata

\* What ffprobe prints for the replacement source: one video stream, or two
\* video streams and an audio stream.
ReplacementMetadata ==
    {Metadata("matroska", ProbedStreams(<<<<"video", "h264">>>>)),
     Metadata("matroska", ProbedStreams(<<<<"video", "h264">>, <<"audio", "aac">>,
                                          <<"video", "h264">>>>))}

ReplaceTargs ==
    {EmptyDict,
     "audio" :> [codec |-> "mp3", bitrate |-> "128k"],
     "audio" :> [codec |-> "aac"],
     "audio" :> [bitrate |-> "128k"],
     "audio" :> [codec |-> "wmapro"],
     "audio" :> [codec |-> "unknown"],
     "video" :> [codec |-> "h264", bitrate |-> "1000k"],
     ("video" :> [codec |-> "h264"]) @@ ("audio" :> [codec |-> "mp3"])}
    \cup {"audio" :> [codec |-> codec] : codec \in AudioCodec}

\* The requests made to replace_streams_command: every input file with no
\* audio parameters, and every stream type and targs with a few input files
\* and with ffprobe failing.
ReplaceRequests ==
    [stream_type : {"v", "a"}, targs : {EmptyDict},
     container : {None, "mp4", "matroska"},
     strip_unsupported_data_streams : BOOLEAN,
     strip_unsupported_subtitle_streams : BOOLEAN,
     input_answer : {Ok(metadata) : metadata \in ReplaceInputMetadata},
     replacement_answer : {Ok(metadata) : metadata \in ReplacementMetadata}]
    \cup
    [stream_type : {"v", "V", "a", "s", "d", "v:1"}, targs : ReplaceTargs,
     container : {None, "mp4"},
     strip_unsupported_data_streams : BOOLEAN,
     strip_unsupported_subtitle_streams : BOOLEAN,
     input_answer : {Ok(LongMetadata), Ok(Metadata("mp4", <<>>)),
                     Raise("CommandFailed")},
     replacement_answer :
         {Ok(Metadata("matroska", ProbedStreams(<<<<"video", "h264">>>>))),
          Raise("CommandFailed")}]

\* The targs given to transcode_video_command: what create_params builds, and
\* dicts written by hand.
TranscodeTargs ==
    {create_params(container, resolution, vcodec, acodec, frame_rate, keywords).value :
         container \in {"mp4", "matroska"},
         resolution \in {<<1920, 1080>>, <<640, 480>>},
         vcodec \in {"h264", "vp9", "mpeg4", "av1", "unknown", None},
         acodec \in {None, "aac"},
         frame_rate \in {RawNone, RawInt(30), s_30, RawFrameRate(30, 1)},
         keywords \in {EmptyDict, "video_bitrate" :> "1000k",
                       "audio_bitrate" :> "128k", "scaling_algorithm" :> "bicubic"}}
    \cup {EmptyDict, "audio" :> EmptyDict, "video" :> EmptyDict,
          "frame_rate" :> RawInt(25)}
    \cup {"video" :> [codec |-> codec] : codec \in VideoCodec}

\* Paths of video files and of list files.
VideoPaths ==
    {"input.mp4", "/golem/work/input.mp4", "work.d/input", ".hidden", "a/..mkv",
     "video.tar.gz", "/input.mkv", ""}

ListPaths == {"/golem/work/tmp/segment-list.txt", "out/list.txt", "list.txt", "/list"}

\* The lists of segments that ffmpeg may have written, and the files that may
\* be present besides the segments.
SegmentLists ==
    {<<"seg_0.mp4.mkv", "seg_1.mp4.mkv">>, <<"seg_1.mp4.mkv", "seg_0.mp4.mkv">>,
     <<"seg_0.mp4.mkv", "seg_1.mp4">>, <<"seg_0.mp4.mkv", "seg_0.mp4.mkv">>,
     <<"seg_0.mp4.mkv", "seg_2.mp4.mkv">>, <<>>}

OtherFiles == {"seg_0.mp4", "seg_1.mp4", "out/seg_0.mp4", "out/seg_1.mp4/cover.jpg"}

\* The file system after a split: the list file as ffmpeg writes it, one path
\* to a line, the segments beside it, and other files.
SplitFileSystem(list_dir, file_paths, others) ==
    LET list_text ==
            IF file_paths = <<>> THEN "" ELSE join_lines(file_paths) \o "\n"
        segments ==
            {os_path_join(list_dir, name) : name \in {"seg_0.mp4.mkv", "seg_1.mp4.mkv"}}
    IN  [file \in {os_path_join(list_dir, "list.txt")} \cup segments \cup others |->
            IF file = os_path_join(list_dir, "list.txt") THEN list_text
            ELSE IF file \in segments THEN "segment " \o file
            ELSE "other " \o file]

FileSystems ==
    {SplitFileSystem(list_dir, file_paths, others) :
         list_dir \in {"", "out"}, file_paths \in SegmentLists,
         others \in SUBSET OtherFiles}

\* The videos to split, and the file systems before a split: the videos and
\* possibly a file that an earlier run has left in the working directory.
SplitInputs == {"in/video.mp4", "in/video.mkv", "in/clip"}

SplitFileSystems ==
    {[file \in {"in/video.mp4", "in/video.mkv"} \cup others |->
         IF file \in others THEN "other" ELSE "video"] :
         others \in SUBSET {"video_0.mp4"}}

SplitContainers == {None, "mp4", "matroska"}

\* Lines of ffmpeg's help for a muxer, and lines that look like them.
MuxerInfoLines ==
    {"Muxer 3g2 [3GP2 (3GPP2 file format)]:",
     "   Default video codec: h263.",
     "   Default audio codec: amr_nb.",
     "   Default audio codec: mp3.",
     "Default audiocodec: vorbis",
     "blabla Default audio codec: amr_nb.",
     "Default audio codec: amr_nb.FAILED.",
     "Default audio codec: amr_nb. Default audio codec: mp2 ",
     "Default audio codec amr_nb.",
     "Default audio codec: aac..",
     "Default audio codec:",
     ""}

\* What ffmpeg prints: every line ends with a line break.
MuxerInfos_text ==
    {join_lines(lines) \o (IF lines = <<>> THEN "" ELSE "\n") :
         lines \in UNION {[1..n -> MuxerInfoLines] : n \in 0..MaxLines}}

\* The frame rates that satisfy the invariant, up to the bounds, and the two
\* NTSC rates.
ValidFrameRates ==
    {FrameRate(n, d) : n \in 0..MaxDividend, d \in 1..MaxDivisor}
    \cup {FrameRate(24000, 1001), FrameRate(30000, 1001), FrameRate(1000, 1)}

\* Metadata for the stream accessors: complete files, a file without 'streams',
\* and streams that lack codec_type, width, height, r_frame_rate, sample_rate
\* or index.
AccessorMetadata ==
    {Metadata("mp4", <<VideoStream(0, "h264", <<1920, 1080>>, s_30),
                       AudioStream(1, "aac", 2, 44100)>>),
     Metadata("mp4", <<AudioStream(0, "aac", 2, 44100),
                       VideoStream(1, "h264", <<1920, 1080>>, s_30),
                       VideoStream(2, "mjpeg", <<640, 480>>, s_122)>>),
     Metadata("mp4", <<AudioStream(0, "aac", 2, 44100)>>),
     Metadata("mp4", <<>>),
     [format |-> [format_name |-> "mp4"]],
     EmptyDict,
     LongMetadata,
     Metadata("mp4", <<[codec_type |-> "subtitle", index |-> 0],
                       [codec_type |-> "subtitle"], EmptyDict>>),
     Metadata("mp4", <<[index |-> 0, codec_name |-> "h264"]>>),
     Metadata("mp4", <<[index |-> 0, codec_type |-> "video", codec_name |-> "h264",
                        height |-> 1080, r_frame_rate |-> s_30]>>),
     Metadata("mp4", <<[index |-> 0, codec_type |-> "video", codec_name |-> "h264",
                        width |-> 1920, r_frame_rate |-> s_30]>>),
     Metadata("mp4", <<[index |-> 0, codec_type |-> "video", codec_name |-> "h264",
                        width |-> 1920, height |-> 1080]>>),
     Metadata("mp4", <<AudioStream(0, "aac", 2, 44100),
                       [index |-> 1, codec_type |-> "audio", codec_name |-> "mp3"],
                       [index |-> 2, codec_type |-> "video"]>>)}

AccessorCodecTypes == {None, "video", "audio", "subtitle", "data", "nothing"}

SelectedStreams == {<<>>, <<"v">>, <<"a", "d">>, <<"v", "a:2">>, <<"0", "1", "2">>}

---------------------------------------------------------------------------
(* The calls.  A call is made when the program is idle; it runs to its end  *)
(* and leaves its arguments and its result (the value returned, or the name *)
(* of the exception raised) in the state until Return.                      *)

Init ==
    /\ op = "idle"
    /\ args = <<>>
    /\ result = None
    /\ executed = <<>>
    /\ files = EmptyDict

Call_validate_transcoding_params ==
    /\ op = "idle"
    /\ \E dst_params \in DstParams, src_metadata \in SrcMetadata,
          dst_muxer_info \in MuxerInfos,
          strip_unsupported_data_streams \in BOOLEAN,
          strip_unsupported_subtitle_streams \in BOOLEAN,
          dest_encoder_info \in EncoderInfoAnswers :
          /\ args' = [dst_params |-> dst_params, src_metadata |-> src_metadata,
                      dst_muxer_info |-> dst_muxer_info,
                      strip_unsupported_data_streams |-> strip_unsupported_data_streams,
                      strip_unsupported_subtitle_streams |->
                          strip_unsupported_subtitle_streams]
          /\ result' = validate_transcoding_params(
                           dst_params, src_metadata, dst_muxer_info,
                           strip_unsupported_data_streams,
                           strip_unsupported_subtitle_streams, dest_encoder_info)
    /\ op' = "validate_transcoding_params"
    /\ UNCHANGED <<executed, files>>

Call_create_params ==
    /\ op = "idle"
    /\ \E container \in {"mp4", "mov"}, resolution \in {<<1920, 1080>>, <<0, 0>>},
          vcodec \in {"h264", "mpeg1video", ""}, acodec \in {None, "", "aac"},
          frame_rate \in {RawNone, RawInt(0), RawInt(30), s_122, RawStr(<<>>),
                          RawFrameRate(30, 1)},
          keywords \in CreateParamsKeywords :
          /\ args' = [container |-> container, resolution |-> resolution,
                      vcodec |-> vcodec, acodec |-> acodec, frame_rate |-> frame_rate,
                      keywords |-> keywords]
          /\ result' = create_params(container, resolution, vcodec, acodec, frame_rate,
                                     keywords)
    /\ op' = "create_params"
    /\ UNCHANGED <<executed, files>>

Call__guess_target_frame_rate ==
    /\ op = "idle"
    /\ \E src_frame_rate \in SrcFrameRates, dst_video_codec \in DstVideoCodecs :
          /\ args' = [src_frame_rate |-> src_frame_rate,
                      dst_video_codec |-> dst_video_codec]
          /\ result' = _guess_target_frame_rate(
                           src_frame_rate,
                           create_params("mp4", <<1920, 1080>>, dst_video_codec, None,
                                         RawNone, EmptyDict).value)
    /\ op' = "_guess_target_frame_rate"
    /\ UNCHANGED <<executed, files>>

Call_validate_frame_rate ==
    /\ op = "idle"
    /\ \E dst_params \in FrameRateDstParams, src_frame_rate \in RawFrameRates :
          /\ args' = [dst_params |-> dst_params, src_frame_rate |-> src_frame_rate]
          /\ result' = validate_frame_rate(dst_params, src_frame_rate)
    /\ op' = "validate_frame_rate"
    /\ UNCHANGED <<executed, files>>

Call_validate_resolution ==
    /\ op = "idle"
    /\ \E src_resolution \in Resolutions, target_resolution \in Resolutions :
          /\ args' = [src_resolution |-> src_resolution,
                      target_resolution |-> target_resolution]
          /\ result' = validate_resolution(src_resolution, target_resolution)
    /\ op' = "validate_resolution"
    /\ UNCHANGED <<executed, files>>

Call_validate_audio_codec_conversion ==
    /\ op = "idle"
    /\ \E src_codec \in SrcAudioCodecs, dst_codec \in DstAudioCodecs,
          audio_stream \in AudioStreams :
          /\ args' = [src_codec |-> src_codec, dst_codec |-> dst_codec,
                      audio_stream |-> audio_stream]
          /\ result' = validate_audio_codec_conversion(src_codec, dst_codec, audio_stream)
    /\ op' = "validate_audio_codec_conversion"
    /\ UNCHANGED <<executed, files>>

Call_is_supported_sample_rate ==
    /\ op = "idle"
    /\ \E codec \in AudioCodec, sample_rate \in SampleRates,
          encoder_info \in EncoderInfos :
          /\ args' = [codec |-> codec, sample_rate |-> sample_rate,
                      encoder_info |-> encoder_info]
          /\ result' = is_supported_sample_rate(codec, sample_rate, encoder_info)
    /\ op' = "is_supported_sample_rate"
    /\ UNCHANGED <<executed, files>>

Call_validate_target_format ==
    /\ op = "idle"
    /\ \E video_format \in VideoFormats :
          /\ args' = [video_format |-> video_format]
          /\ result' = validate_target_format(video_format)
    /\ op' = "validate_target_format"
    /\ UNCHANGED <<executed, files>>

Call_find_unsupported_data_streams ==
    /\ op = "idle"
    /\ \E metadata \in StreamMetadata :
          /\ args' = [metadata |-> metadata]
          /\ result' = find_unsupported_data_streams(metadata)
    /\ op' = "find_unsupported_data_streams"
    /\ UNCHANGED <<executed, files>>

Call_find_unsupported_subtitle_streams ==
    /\ op = "idle"
    /\ \E metadata \in StreamMetadata, target_container \in TargetContainers :
          /\ args' = [metadata |-> metadata, target_container |-> target_container]
          /\ result' = find_unsupported_subtitle_streams(metadata, target_container)
    /\ op' = "find_unsupported_subtitle_streams"
    /\ UNCHANGED <<executed, files>>

Call_validate_unsupported_data_streams ==
    /\ op = "idle"
    /\ \E metadata \in StreamMetadata, strip_unsupported_data_streams \in BOOLEAN :
          /\ args' = [metadata |-> metadata,
                      strip_unsupported_data_streams |-> strip_unsupported_data_streams]
          /\ result' = validate_unsupported_data_streams(
                           metadata, strip_unsupported_data_streams)
    /\ op' = "validate_unsupported_data_streams"
    /\ UNCHANGED <<executed, files>>

Call_validate_unsupported_subtitle_streams ==
    /\ op = "idle"
    /\ \E metadata \in StreamMetadata, strip_unsupported_subtitle_streams \in BOOLEAN,
          target_container \in TargetContainers :
          /\ args' = [metadata |-> metadata,
                      strip_unsupported_subtitle_streams |->
                          strip_unsupported_subtitle_streams,
                      target_container |-> target_container]
          /\ result' = validate_unsupported_subtitle_streams(
                           metadata, strip_unsupported_subtitle_streams,
                           target_container)
    /\ op' = "validate_unsupported_subtitle_streams"
    /\ UNCHANGED <<executed, files>>

Call_select_conversion_for_container ==
    /\ op = "idle"
    /\ \E self \in SubtitleCodec, target_container \in VideoFormats :
          /\ args' = [self |-> self, target_container |-> target_container]
          /\ result' = select_conversion_for_container(self, target_container)
    /\ op' = "select_conversion_for_container"
    /\ UNCHANGED <<executed, files>>

Call_adjust_stream_indexes_for_removals ==
    /\ op = "idle"
    /\ \E indexed_map \in IndexedMaps, removed_indexes \in RemovedIndexes :
          /\ args' = [indexed_map |-> indexed_map, removed_indexes |-> removed_indexes]
          /\ result' = adjust_stream_indexes_for_removals(indexed_map, removed_indexes)
    /\ op' = "adjust_stream_indexes_for_removals"
    /\ UNCHANGED <<executed, files>>

Call_extract_streams_command ==
    /\ op = "idle"
    /\ \E input_file \in {c_input_file}, output_file \in {c_output_file},
          selected_streams \in SelectedStreams, container \in {None, "mp4"} :
          /\ args' = [input_file |-> input_file, output_file |-> output_file,
                      selected_streams |-> selected_streams, container |-> container]
          /\ result' = extract_streams_command(input_file, output_file,
                                               selected_streams, container)
    /\ op' = "extract_streams_command"
    /\ UNCHANGED <<executed, files>>

Call_split_video_command ==
    /\ op = "idle"
    /\ \E input_file \in VideoPaths, output_list_file \in ListPaths,
          segment_time \in {5, 10}, container \in {None, "mp4"} :
          /\ args' = [input_file |-> input_file, output_list_file |-> output_list_file,
                      segment_time |-> segment_time, container |-> container]
          /\ result' = split_video_command(input_file, output_list_file, segment_time,
                                           container)
    /\ op' = "split_video_command"
    /\ UNCHANGED <<executed, files>>

Call_transcode_video_command ==
    /\ op = "idle"
    /\ \E track \in {c_replacement_source}, output_file \in {c_output_file},
          targs \in TranscodeTargs :
          /\ args' = [track |-> track, output_file |-> output_file, targs |-> targs]
          /\ result' = transcode_video_command(track, output_file, targs)
    /\ op' = "transcode_video_command"
    /\ UNCHANGED <<executed, files>>

Call_merge_videos_command ==
    /\ op = "idle"
    /\ \E input_file \in ListPaths, output \in VideoPaths, container \in {None, "mp4"} :
          /\ args' = [input_file |-> input_file, output |-> output,
                      container |-> container]
          /\ result' = merge_videos_command(input_file, output, container)
    /\ op' = "merge_videos_command"
    /\ UNCHANGED <<executed, files>>

\* The two answers of ffprobe are part of the request; the commands the call
\* runs are appended to `executed`.
Call_replace_streams_command ==
    /\ op = "idle"
    /\ \E request \in ReplaceRequests :
          LET call == replace_streams_command(
                          c_input_file, c_replacement_source, c_output_file,
                          request.stream_type, request.targs, request.container,
                          request.strip_unsupported_data_streams,
                          request.strip_unsupported_subtitle_streams,
                          request.input_answer, request.replacement_answer)
          IN  /\ args' = request
              /\ result' = call.result
              /\ executed' = executed \o call.executed
    /\ op' = "replace_streams_command"
    /\ UNCHANGED files

Call_get_metadata_command ==
    /\ op = "idle"
    /\ \E video \in VideoPaths :
          /\ args' = [video |-> video]
          /\ result' = get_metadata_command(video)
    /\ op' = "get_metadata_command"
    /\ UNCHANGED <<executed, files>>

Call_compute_psnr_command ==
    /\ op = "idle"
    /\ \E video \in VideoPaths, reference_video \in VideoPaths,
          psnr_frames_file \in {"psnr.txt", "out/psnr.log"} :
          /\ args' = [video |-> video, reference_video |-> reference_video,
                      psnr_frames_file |-> psnr_frames_file]
          /\ result' = compute_psnr_command(video, reference_video, psnr_frames_file)
    /\ op' = "compute_psnr_command"
    /\ UNCHANGED <<executed, files>>

Call_compute_ssim_command ==
    /\ op = "idle"
    /\ \E video \in VideoPaths, reference_video \in VideoPaths,
          ssim_frames_file \in {"ssim.txt", "out/ssim.log"} :
          /\ args' = [video |-> video, reference_video |-> reference_video,
                      ssim_frames_file |-> ssim_frames_file]
          /\ result' = compute_ssim_command(video, reference_video, ssim_frames_file)
    /\ op' = "compute_ssim_command"
    /\ UNCHANGED <<executed, files>>

Call_get_query_muxer_info_command ==
    /\ op = "idle"
    /\ \E muxer \in Container \cup {"jpg", ""} :
          /\ args' = [muxer |-> muxer]
          /\ result' = get_query_muxer_info_command(muxer)
    /\ op' = "get_query_muxer_info_command"
    /\ UNCHANGED <<executed, files>>

Call_get_query_encoder_info_command ==
    /\ op = "idle"
    /\ \E encoder \in {"aac", "libmp3lame", "libopus", "unknown", ""} :
          /\ args' = [encoder |-> encoder]
          /\ result' = get_query_encoder_info_command(encoder)
    /\ op' = "get_query_encoder_info_command"
    /\ UNCHANGED <<executed, files>>

Call_VideoCodec_can_convert ==
    /\ op = "idle"
    /\ \E self \in VideoCodec, video_codec \in VideoCodec \cup {"unknown", None} :
          /\ args' = [self |-> self, video_codec |-> video_codec]
          /\ result' = VideoCodec_can_convert(self, video_codec)
    /\ op' = "VideoCodec_can_convert"
    /\ UNCHANGED <<executed, files>>

Call_AudioCodec_can_convert ==
    /\ op = "idle"
    /\ \E self \in AudioCodec, audio_codec \in AudioCodec \cup {"unknown", None} :
          /\ args' = [self |-> self, audio_codec |-> audio_codec]
          /\ result' = AudioCodec_can_convert(self, audio_codec)
    /\ op' = "AudioCodec_can_convert"
    /\ UNCHANGED <<executed, files>>

Call_SubtitleCodec_can_convert ==
    /\ op = "idle"
    /\ \E self \in SubtitleCodec, subtitle_codec \in SubtitleCodec \cup {"unknown", None} :
          /\ args' = [self |-> self, subtitle_codec |-> subtitle_codec]
          /\ result' = SubtitleCodec_can_convert(self, subtitle_codec)
    /\ op' = "SubtitleCodec_can_convert"
    /\ UNCHANGED <<executed, files>>

Call_get_intermediate_muxer ==
    /\ op = "idle"
    /\ \E self \in Container :
          /\ args' = [self |-> self]
          /\ result' = get_intermediate_muxer(self)
    /\ op' = "get_intermediate_muxer"
    /\ UNCHANGED <<executed, files>>

Call_query_muxer_info ==
    /\ op = "idle"
    /\ \E muxer \in {"3g2"},
          answer \in {Ok(text) : text \in MuxerInfos_text} \cup {Raise("CommandFailed")} :
          LET call == query_muxer_info(muxer, answer)
          IN  /\ args' = [muxer |-> muxer, answer |-> answer]
              /\ result' = call.result
              /\ executed' = executed \o call.executed
    /\ op' = "query_muxer_info"
    /\ UNCHANGED files

Call_decode ==
    /\ op = "idle"
    /\ \E raw_value \in RawFrameRates :
          /\ args' = [raw_value |-> raw_value]
          /\ result' = decode(raw_value)
    /\ op' = "decode"
    /\ UNCHANGED <<executed, files>>

Call_FrameRate___str__ ==
    /\ op = "idle"
    /\ \E self \in ValidFrameRates :
          /\ args' = [self |-> self]
          /\ result' = FrameRate___str__(self)
    /\ op' = "FrameRate.__str__"
    /\ UNCHANGED <<executed, files>>

Call_get_resolution ==
    /\ op = "idle"
    /\ \E metadata \in AccessorMetadata :
          /\ args' = [metadata |-> metadata]
          /\ result' = get_resolution(metadata)
    /\ op' = "get_resolution"
    /\ UNCHANGED <<executed, files>>

Call_get_resolutions ==
    /\ op = "idle"
    /\ \E metadata \in AccessorMetadata :
          /\ args' = [metadata |-> metadata]
          /\ result' = get_resolutions(metadata)
    /\ op' = "get_resolutions"
    /\ UNCHANGED <<executed, files>>

Call_get_frame_rate ==
    /\ op = "idle"
    /\ \E metadata \in AccessorMetadata :
          /\ args' = [metadata |-> metadata]
          /\ result' = get_frame_rate(metadata)
    /\ op' = "get_frame_rate"
    /\ UNCHANGED <<executed, files>>

Call_get_frame_rates ==
    /\ op = "idle"
    /\ \E metadata \in AccessorMetadata :
          /\ args' = [metadata |-> metadata]
          /\ result' = get_frame_rates(metadata)
    /\ op' = "get_frame_rates"
    /\ UNCHANGED <<executed, files>>

Call_get_sample_rates ==
    /\ op = "idle"
    /\ \E metadata \in AccessorMetadata :
          /\ args' = [metadata |-> metadata]
          /\ result' = get_sample_rates(metadata)
    /\ op' = "get_sample_rates"
    /\ UNCHANGED <<executed, files>>

Call_get_codecs ==
    /\ op = "idle"
    /\ \E metadata \in AccessorMetadata, codec_type \in AccessorCodecTypes :
          /\ args' = [metadata |-> metadata, codec_type |-> codec_type]
          /\ result' = get_codecs(metadata, codec_type)
    /\ op' = "get_codecs"
    /\ UNCHANGED <<executed, files>>

Call_get_streams ==
    /\ op = "idle"
    /\ \E metadata \in AccessorMetadata, codec_type \in AccessorCodecTypes :
          /\ args' = [metadata |-> metadata, codec_type |-> codec_type]
          /\ result' = get_streams(metadata, codec_type)
    /\ op' = "get_streams"
    /\ UNCHANGED <<executed, files>>

Call_count_streams ==
    /\ op = "idle"
    /\ \E metadata \in AccessorMetadata, codec_type \in AccessorCodecTypes :
          /\ args' = [metadata |-> metadata, codec_type |-> codec_type]
          /\ result' = count_streams(metadata, codec_type)
    /\ op' = "count_streams"
    /\ UNCHANGED <<executed, files>>

Call_find_stream_indexes ==
    /\ op = "idle"
    /\ \E metadata \in AccessorMetadata, codec_type \in AccessorCodecTypes :
          /\ args' = [metadata |-> metadata, codec_type |-> codec_type]
          /\ result' = find_stream_indexes(metadata, codec_type)
    /\ op' = "find_stream_indexes"
    /\ UNCHANGED <<executed, files>>

Call_get_attribute_from_all_streams ==
    /\ op = "idle"
    /\ \E metadata \in AccessorMetadata, attribute \in {"index", "codec_name", "width", "missing"}, codec_type \in AccessorCodecTypes :
          /\ args' = [metadata |-> metadata, attribute |-> attribute, codec_type |-> codec_type]
          /\ result' = get_attribute_from_all_streams(metadata, attribute, codec_type)
    /\ op' = "get_attribute_from_all_streams"
    /\ UNCHANGED <<executed, files>>

Return ==
    /\ op # "idle"
    /\ op' = "idle"
    /\ args' = <<>>
    /\ result' = None
    /\ executed' = <<>>
    /\ UNCHANGED files

Next ==
    \/ Call_validate_transcoding_params
    \/ Call_create_params
    \/ Call__guess_target_frame_rate
    \/ Call_validate_frame_rate
    \/ Call_validate_resolution
    \/ Call_validate_audio_codec_conversion
    \/ Call_is_supported_sample_rate
    \/ Call_validate_target_format
    \/ Call_find_unsupported_data_streams
    \/ Call_find_unsupported_subtitle_streams
    \/ Call_validate_unsupported_data_streams
    \/ Call_validate_unsupported_subtitle_streams
    \/ Call_select_conversion_for_container
    \/ Call_adjust_stream_indexes_for_removals
    \/ Call_extract_streams_command
    \/ Call_split_video_command
    \/ Call_transcode_video_command
    \/ Call_merge_videos_command
    \/ Call_replace_streams_command
    \/ Call_get_metadata_command
    \/ Call_compute_psnr_command
    \/ Call_compute_ssim_command
    \/ Call_get_query_muxer_info_command
    \/ Call_get_query_encoder_info_command
    \/ Call_VideoCodec_can_convert
    \/ Call_AudioCodec_can_convert
    \/ Call_SubtitleCodec_can_convert
    \/ Call_get_intermediate_muxer
    \/ Call_query_muxer_info
    \/ Call_decode
    \/ Call_FrameRate___str__
    \/ Call_get_resolution
    \/ Call_get_resolutions
    \/ Call_get_frame_rate
    \/ Call_get_frame_rates
    \/ Call_get_sample_rates
    \/ Call_get_codecs
    \/ Call_get_streams
    \/ Call_count_streams
    \/ Call_find_stream_indexes
    \/ Call_get_attribute_from_all_streams
    \/ Return

Spec == Init /\ [][Next]_vars

(* The post-processing of a split, on a file system.                        *)
InitFiles ==
    /\ op = "idle"
    /\ args = <<>>
    /\ result = None
    /\ executed = <<>>
    /\ files \in FileSystems

Call_strip_suffix_from_segments_and_rename_files ==
    /\ op = "idle"
    /\ \E output_list_file_path \in {"list.txt", "out/list.txt"},
          suffix \in {".mkv", ".mp4", ""} :
          LET call == strip_suffix_from_segments_and_rename_files(
                          files, output_list_file_path, suffix)
          IN  /\ args' = [output_list_file_path |-> output_list_file_path,
                          suffix |-> suffix]
              /\ result' = call.result
              /\ files' = call.files
    /\ op' = "strip_suffix_from_segments_and_rename_files"
    /\ UNCHANGED executed

NextFiles ==
    \/ Call_strip_suffix_from_segments_and_rename_files
    \/ Return

SpecFiles == InitFiles /\ [][NextFiles]_vars

(* The split of a video into segments, on a file system.                    *)
InitSplit ==
    /\ op = "idle"
    /\ args = <<>>
    /\ result = None
    /\ executed = <<>>
    /\ files \in SplitFileSystems

Call_split ==
    /\ op = "idle"
    /\ \E input_file \in SplitInputs, output_list_file \in {"out/list.txt"},
          segment_time \in {5}, container \in SplitContainers,
          segments \in 1..MaxSegments :
          \* the segments go to a directory that holds nothing yet
          /\ ~is_directory(files, os_path_dirname(output_list_file))
          /\ LET call == split(files, input_file, output_list_file, segment_time,
                            container, segments)
             IN  /\ args' = [input_file |-> input_file,
                             output_list_file |-> output_list_file,
                             segment_time |-> segment_time, container |-> container,
                             segments |-> segments]
                 /\ result' = call.result
                 /\ files' = call.files
                 /\ executed' = call.executed
    /\ op' = "split"

Call_split_video ==
    /\ op = "idle"
    /\ \E input_file \in SplitInputs, output_dir \in {"work"},
          split_len \in {5}, container \in SplitContainers,
          segments \in 1..MaxSegments :
          \* the segments go to a directory that holds nothing yet
          /\ ~is_directory(files, output_dir)
          /\ LET call == split_video(files, input_file, output_dir, split_len,
                                  container, segments)
             IN  /\ args' = [input_file |-> input_file, output_dir |-> output_dir,
                             split_len |-> split_len, container |-> container,
                             segments |-> segments]
                 /\ result' = call.result
                 /\ files' = call.files
                 /\ executed' = call.executed
    /\ op' = "split_video"

NextSplit ==
    \/ Call_split
    \/ Call_split_video
    \/ Return

SpecSplit == InitSplit /\ [][NextSplit]_vars

---------------------------------------------------------------------------
(* The properties.                                                         *)

\* The request of the test "source frame rate when capped is validated as max":
\* a mov file with an mpeg1video stream at 122 fps, to mov / mpeg1video / aac
\* with no explicit frame rate.
CappedRequest ==
    /\ op = "validate_transcoding_params"
    /\ args.src_metadata =
           Metadata("mov", <<VideoStream(0, "mpeg1video", <<1920, 1080>>, s_122),
                             AudioStream(1, "aac", 2, 44100)>>)
    /\ args.dst_params =
           create_params("mov", <<1920, 1080>>, "mpeg1video", "aac", RawNone,
                         EmptyDict).value

\* C1: validate_transcoding_params returns True for a request that violates no
\* rule of the pipeline; in particular the 122 fps mov source converted to
\* mov / mpeg1video with no explicit frame rate is accepted.
C1_ValidRequestAccepted == CappedRequest => result = "True"

\* C2: the checks run in a fixed order and the first failure is the one raised:
\* an unrecognized source format together with an exclusive-demuxer target gives
\* UnsupportedVideoFormat, and an aspect-ratio mismatch together with an
\* unsupported frame rate gives InvalidResolution.
C2_FirstFailureRaised ==
    op = "validate_transcoding_params" =>
        /\ ( /\ args.src_metadata =
                    Metadata("jpg", <<VideoStream(0, "h264", <<1920, 1080>>, s_30),
                                      AudioStream(1, "aac", 2, 44100)>>)
             /\ args.dst_params =
                    create_params(c_QUICK_TIME_DEMUXER, <<1920, 1080>>, "h264", "aac",
                                  RawNone, EmptyDict).value )
           => result = "UnsupportedVideoFormat"
        /\ ( /\ args.src_metadata =
                    Metadata("mp4", <<VideoStream(0, "h264", <<1280, 1024>>, s_33),
                                      AudioStream(1, "aac", 2, 44100)>>)
             /\ args.dst_params =
                    create_params("mp4", <<1920, 1080>>, "h264", "aac", RawNone,
                                  EmptyDict).value )
           => result = "InvalidResolution"

\* C3: with no explicit target rate, the rate derived from the decoded source
\* rate s and the destination codec c is 60/1 when c is mpeg1video and s is above
\* 60, 12/1 when c is mpeg2video and s normalizes to 25/2, and s itself, not
\* normalized, in every other case.
C3_GuessedTargetRate ==
    op = "_guess_target_frame_rate" =>
        LET s == args.src_frame_rate
            c == args.dst_video_codec
            capped == c = "mpeg1video" /\ s.dividend > 60 * s.divisor
            substituted == c = "mpeg2video" /\ 2 * s.dividend = 25 * s.divisor
        IN  /\ capped => result = FrameRate(60, 1)
            /\ (~capped /\ substituted) => result = FrameRate(12, 1)
            /\ (~capped /\ ~substituted) => result = s
            /\ (c = "mpeg1video" /\ s \in {FrameRate(61, 1), FrameRate(244, 2)})
               => result = FrameRate(60, 1)
            /\ (c = "mpeg1video" /\ s = FrameRate(44, 2)) => result = FrameRate(44, 2)
            /\ (c = "mpeg2video" /\ s = FrameRate(25, 2)) => result = FrameRate(12, 1)
            /\ (c = "h264" /\ s = FrameRate(122, 1)) => result = FrameRate(122, 1)

\* A source rate of 244/2 with mpeg1video was capped to 60/1.
C3_Witness ==
    /\ op = "_guess_target_frame_rate"
    /\ args.src_frame_rate = FrameRate(244, 2)
    /\ args.dst_video_codec = "mpeg1video"
    /\ result = FrameRate(60, 1)

\* A call of validate_frame_rate whose destination parameters name a frame rate.
ExplicitFrameRate == op = "validate_frame_rate" /\ "frame_rate" \in DOMAIN args.dst_params

\* C4: with an explicit target frame rate the outcome of validate_frame_rate
\* depends on that value only: it is the outcome of the same value with no source
\* rate and a codec that has neither cap nor substitution.  Explicit 61, 122 and
\* 121/2 with mpeg1video and 25/2 with mpeg2video fail with InvalidFrameRate, and
\* a supported explicit rate succeeds whatever the source rate.
C4_ExplicitRateNotCapped ==
    ExplicitFrameRate =>
        LET explicit == args.dst_params["frame_rate"]
            codec == args.dst_params["video"]["codec"]
        IN  /\ result = validate_frame_rate(
                            create_params("mp4", <<1920, 1080>>, "h264", None, RawNone,
                                          EmptyDict).value @@ ("frame_rate" :> explicit),
                            RawNone)
            /\ ( /\ codec = "mpeg1video"
                 /\ explicit \in {RawInt(61), RawInt(122), RawStr(<<"6", "1">>), s_122,
                                  RawStr(<<"1", "2", "1", "/", "2">>), RawFrameRate(61, 1)} )
               => result = "InvalidFrameRate"
            /\ ( /\ codec = "mpeg2video"
                 /\ explicit \in {RawStr(<<"2", "5", "/", "2">>), RawFrameRate(25, 2)} )
               => result = "InvalidFrameRate"
            /\ explicit \in {RawInt(30), RawStr(<<"3", "0">>), RawStr(<<"6", "0", "/", "2">>)}
               => result = "True"

\* An explicit 61 with mpeg1video and a 122 fps source was rejected, not capped.
C4_Witness ==
    /\ ExplicitFrameRate
    /\ args.dst_params["frame_rate"] = RawInt(61)
    /\ args.dst_params["video"]["codec"] = "mpeg1video"
    /\ args.src_frame_rate = s_122
    /\ result = "InvalidFrameRate"

\* C5: validate_frame_rate succeeds if and only if the target rate (explicit,
\* or derived from the source) is normalized a member of the supported frame
\* rates, and fails with InvalidFrameRate in every other case: not a member,
\* a rate that cannot be decoded, neither an explicit nor a source rate.
C5_FrameRateMembership ==
    op = "validate_frame_rate" =>
        LET explicit == "frame_rate" \in DOMAIN args.dst_params
            decoded == decode(IF explicit THEN args.dst_params["frame_rate"]
                              ELSE args.src_frame_rate)
            supported ==
                /\ decoded.ok
                /\ FrameRateInvariant(decoded.value)
                /\ normalized(IF explicit THEN decoded.value
                              ELSE _guess_target_frame_rate(decoded.value, args.dst_params))
                       \in list_supported_frame_rates
        IN  /\ supported => result = "True"
            /\ ~supported => result = "InvalidFrameRate"
            /\ ( /\ explicit
                 /\ args.dst_params["frame_rate"] = RawStr(<<"6", "0", "/", "2">>) )
               => result = "True"

\* C6: validate_resolution returns True when the effective aspect ratios of the
\* two resolutions are equal and raises InvalidResolution in every other case;
\* 1920x1080 to 1280x720 or 1366x768 is accepted, to 1280x1024 rejected.
C6_ResolutionAspectRatio ==
    op = "validate_resolution" =>
        /\ result \in {"True", "InvalidResolution"}
        /\ ( /\ args.src_resolution = <<1920, 1080>>
             /\ args.target_resolution \in {<<1280, 720>>, <<1366, 768>>} )
           => result = "True"
        /\ (args.src_resolution = <<1920, 1080>> /\ args.target_resolution = <<1280, 1024>>)
           => result = "InvalidResolution"

\* C7: every video stream of the source is checked: a second video stream of
\* 640x480 against a destination of 1920x1080 fails with InvalidResolution.
C7_EveryVideoStreamChecked ==
    ( /\ op = "validate_transcoding_params"
      /\ args.src_metadata =
             Metadata("mp4", <<VideoStream(0, "h264", <<1920, 1080>>, s_30),
                               VideoStream(1, "h264", <<640, 480>>, s_30),
                               AudioStream(2, "aac", 2, 48000)>>)
      /\ args.dst_params =
             create_params("mp4", <<1920, 1080>>, "h264", "aac", RawNone,
                           EmptyDict).value )
    => result = "InvalidResolution"

\* C8: when the source has audio and the destination names no audio codec, an
\* empty muxer info makes validation fail with UnsupportedAudioCodecConversion,
\* and no muxer info (None) makes it skip the destination-audio checks and pass.
C8_EffectiveDstAudioCodec ==
    ( /\ op = "validate_transcoding_params"
      /\ args.src_metadata =
             Metadata("mp4", <<VideoStream(0, "h264", <<1920, 1080>>, RawInt(60)),
                               AudioStream(1, "mp3", 2, 44100)>>)
      /\ args.dst_params =
             create_params("mpeg", <<1920, 1080>>, "mpeg1video", None, RawNone,
                           EmptyDict).value )
    => /\ args.dst_muxer_info = Dict(EmptyDict)
          => result = "UnsupportedAudioCodecConversion"
       /\ args.dst_muxer_info = NoDict => result = "True"

\* C9: validate_audio_codec_conversion raises UnsupportedAudioChannelLayout
\* exactly when the codec changes, the conversion is in the table and the stream
\* has more than 2 channels; a passthrough (src = dst) succeeds for every audio
\* codec and every channel count.
C9_AudioChannelLayout ==
    op = "validate_audio_codec_conversion" =>
        LET src == args.src_codec
            dst == args.dst_codec
        IN  /\ result = "UnsupportedAudioChannelLayout"
               <=> ( /\ src # dst
                     /\ src \in AudioCodec
                     /\ dst \in _AUDIO_SUPPORTED_CONVERSIONS[src]
                     /\ "channels" \in DOMAIN args.audio_stream
                     /\ args.audio_stream["channels"] > 2 )
            /\ (src \in AudioCodec /\ src = dst) => result = "True"

NoDstVideoCodec ==
    \/ "video" \notin DOMAIN args.dst_params
    \/ "codec" \notin DOMAIN args.dst_params["video"]
    \/ args.dst_params["video"]["codec"] = None

\* C11: validate_transcoding_params fails with MissingVideoCodec when the
\* destination parameters carry no video codec (video.codec absent or None),
\* whatever the other parameters are.
C11_MissingVideoCodec ==
    (op = "validate_transcoding_params" /\ NoDstVideoCodec)
        => result = "MissingVideoCodec"

\* C12: validate_target_format(f) returns True if and only if f is a container
\* name that is not an exclusive demuxer; it raises UnsupportedVideoFormat for
\* a name that is no container and UnsupportedTargetVideoFormat for
\* 'mov,mp4,m4a,3gp,3g2,mj2' and for 'matroska,webm'.
C12_TargetFormat ==
    op = "validate_target_format" =>
        LET f == args.video_format
            exclusive == {"mov,mp4,m4a,3gp,3g2,mj2", "matroska,webm"}
        IN  /\ result = "True" <=> (f \in Container /\ f \notin exclusive)
            /\ f \notin Container => result = "UnsupportedVideoFormat"
            /\ f \in exclusive => result = "UnsupportedTargetVideoFormat"

C12_Witness ==
    /\ op = "validate_target_format"
    /\ args.video_format = "matroska,webm"
    /\ result = "UnsupportedTargetVideoFormat"

\* The positions of the unsupported data streams of a file: the data streams
\* whose codec is not on the whitelist.
UnsupportedDataStreams(metadata) ==
    LET streams == get_streams_list(metadata)
    IN  {i \in 1..Len(streams) :
            /\ get(streams[i], "codec_type") = "data"
            /\ get(streams[i], "codec_name") # "bin_data"}

\* The positions of the unsupported subtitle streams of a file: the subtitle
\* streams whose codec is no subtitle codec, or none of whose conversions is a
\* subtitle codec of the container.
UnsupportedSubtitleStreams(metadata, target_container) ==
    LET streams == get_streams_list(metadata)
        container_codecs ==
            IF target_container \in Container
            THEN get_supported_codecs(target_container, "subtitlecodecs")
            ELSE {}
    IN  {i \in 1..Len(streams) :
            /\ get(streams[i], "codec_type") = "subtitle"
            /\ \/ get(streams[i], "codec_name") \notin
                       {"ass", "mov_text", "subrip", "webvtt"}
               \/ _SUBTITLE_SUPPORTED_CONVERSIONS[get(streams[i], "codec_name")]
                      \cap container_codecs = {}}

\* The indexes of the streams at the given positions, in the order of the file.
IndexesOf(metadata, positions) ==
    LET streams == get_streams_list(metadata)
    IN  SelectSeq2([i \in 1..Len(streams) |-> get(streams[i], "index")],
                   [i \in 1..Len(streams) |-> i \in positions])

\* C13: a data stream is unsupported iff its codec is not on the whitelist, a
\* subtitle stream iff its codec is no subtitle codec or has no conversion the
\* target container supports; each of the two checks fails iff its strip flag is
\* false and the file has an unsupported stream (UnsupportedStream for data,
\* UnsupportedSubtitleCodecConversion for subtitles), and the subtitle check
\* with the target container None always fails with InvalidVideo.
C13_UnsupportedStreams ==
    /\ op = "find_unsupported_data_streams" =>
           result = IndexesOf(args.metadata, UnsupportedDataStreams(args.metadata))
    /\ (op = "find_unsupported_subtitle_streams" /\ args.target_container # None) =>
           result = IndexesOf(args.metadata,
                              UnsupportedSubtitleStreams(args.metadata,
                                                         args.target_container))
    /\ op = "validate_unsupported_data_streams" =>
           result = IF /\ ~args.strip_unsupported_data_streams
                       /\ UnsupportedDataStreams(args.metadata) # {}
                    THEN "UnsupportedStream"
                    ELSE "True"
    /\ op = "validate_unsupported_subtitle_streams" =>
           result = IF args.target_container = None THEN "InvalidVideo"
                    ELSE IF /\ ~args.strip_unsupported_subtitle_streams
                            /\ UnsupportedSubtitleStreams(
                                   args.metadata, args.target_container) # {}
                    THEN "UnsupportedSubtitleCodecConversion"
                    ELSE "True"

\* A file whose only unsupported stream is a subrip stream the target container
\* (avi) has no codec for is rejected when the strip flag is false.
C13_Witness ==
    /\ op = "validate_unsupported_subtitle_streams"
    /\ args.target_container = "avi"
    /\ ~args.strip_unsupported_subtitle_streams
    /\ args.metadata = Metadata("mp4", ProbedStreams(<<<<"video", "h264">>,
                                                        <<"subtitle", "subrip">>>>))
    /\ result = "UnsupportedSubtitleCodecConversion"

\* The code points of the characters of the subtitle codec names.
CodePoints ==
    [ass      |-> <<97, 115, 115>>,
     mov_text |-> <<109, 111, 118, 95, 116, 101, 120, 116>>,
     subrip   |-> <<115, 117, 98, 114, 105, 112>>,
     webvtt   |-> <<119, 101, 98, 118, 116, 116>>]

\* a <= b in the order of str: by the first code point that differs, a prefix
\* before the longer string.
RECURSIVE LexLessOrEqual(_, _)
LexLessOrEqual(a, b) ==
    IF a = <<>> THEN TRUE
    ELSE IF b = <<>> THEN FALSE
    ELSE IF Head(a) # Head(b) THEN Head(a) < Head(b)
    ELSE LexLessOrEqual(Tail(a), Tail(b))

\* C20: select_conversion_for_container returns None when the container name
\* is no container or when no conversion of the codec is a subtitle codec of the
\* container; otherwise it returns the lexicographically smallest codec name
\* that is both (subrip into matroska, which supports subrip and ass, gives ass).
C20_SelectedConversion ==
    op = "select_conversion_for_container" =>
        LET candidates ==
                IF args.target_container \in Container
                THEN _SUBTITLE_SUPPORTED_CONVERSIONS[args.self]
                     \cap get_supported_codecs(args.target_container, "subtitlecodecs")
                ELSE {}
        IN  /\ candidates = {} => result = None
            /\ candidates # {} =>
                   /\ result \in candidates
                   /\ \A codec \in candidates :
                          LexLessOrEqual(CodePoints[result], CodePoints[codec])
            /\ (args.self = "subrip" /\ args.target_container = "matroska") =>
                   result = "ass"

C20_Witness ==
    /\ op = "select_conversion_for_container"
    /\ args.self = "subrip"
    /\ args.target_container = "matroska"
    /\ {"subrip", "ass"} \subseteq get_supported_codecs("matroska", "subtitlecodecs")
    /\ result = "ass"

\* C14: for a map whose keys are all >= 0 and none of which is removed,
\* adjust_stream_indexes_for_removals returns a map with one entry per entry
\* given, the entry of key i under the key i - |{r in removed : r < i}|,
\* whatever the order in which the keys were inserted and the order of the
\* removed indexes.
C14_AdjustedIndexes ==
    ( /\ op = "adjust_stream_indexes_for_removals"
      /\ dict_keys(args.indexed_map) \cap list_set(args.removed_indexes) = {}
      /\ \A index \in dict_keys(args.indexed_map) \cup list_set(args.removed_indexes) :
             index >= 0 )
    => /\ result.ok
       /\ Len(result.value) = Len(args.indexed_map)
       /\ list_set(result.value) =
              { <<item[1] - Cardinality({r \in list_set(args.removed_indexes) :
                                           r < item[1]}),
                  item[2]>> : item \in list_set(args.indexed_map) }

\* The streams of the file are listed in the order of their indexes, as ffprobe
\* lists them.
ListedInIndexOrder(metadata) ==
    LET streams == get_streams_list(metadata)
    IN  \A i, j \in 1..Len(streams) : i < j => streams[i].index < streams[j].index

\* A call of replace_streams_command that returned a command.
ReplaceCommandBuilt ==
    /\ op = "replace_streams_command"
    /\ result.ok
    /\ ListedInIndexOrder(args.input_answer.value)

\* The streams (positions in the input file) that the command of the call
\* drops from input 0: those of the replaced type, and the unsupported data and
\* subtitle streams when their strip flag is set.
DroppedStreams ==
    LET metadata == args.input_answer.value
        streams == get_streams_list(metadata)
    IN  {i \in 1..Len(streams) :
            get(streams[i], "codec_type") =
                (IF args.stream_type = "a" THEN "audio" ELSE "video")}
        \cup (IF args.strip_unsupported_data_streams
              THEN UnsupportedDataStreams(metadata) ELSE {})
        \cup (IF args.strip_unsupported_subtitle_streams /\ args.container # None
              THEN UnsupportedSubtitleStreams(metadata, args.container) ELSE {})

\* The subtitle streams (positions in the input file) for which a conversion is
\* selected: none without a container.
ConvertedStreams ==
    LET metadata == args.input_answer.value
        streams == get_streams_list(metadata)
    IN  IF args.container = None THEN {}
        ELSE {i \in 1..Len(streams) :
                 /\ get(streams[i], "codec_type") = "subtitle"
                 /\ i \notin UnsupportedSubtitleStreams(metadata, args.container)}

\* The index in the output file of the stream at position i of the input file.
OutputIndex(i) ==
    LET streams == get_streams_list(args.input_answer.value)
        replacement == get_streams_list(args.replacement_answer.value)
    IN  streams[i].index
        - Cardinality({j \in DroppedStreams : streams[j].index < streams[i].index})
        + Cardinality({j \in 1..Len(replacement) :
                          get(replacement[j], "codec_type") =
                              (IF args.stream_type = "a" THEN "audio" ELSE "video")})

\* The positions in the command of the options -codec:<k>.
CodecOptions ==
    {p \in 1..Len(result.value) :
        \E k \in 0..(MaxStreams + 8) : result.value[p] = "-codec:" \o str(k)}

RECURSIVE Ascending(_)
Ascending(S) ==
    IF S = {} THEN <<>>
    ELSE LET least == CHOOSE x \in S : \A y \in S : x <= y
         IN  <<least>> \o Ascending(S \ {least})

\* -map -0:<i> for the input streams at the given positions, by ascending index.
StripOptions(positions) ==
    LET streams == get_streams_list(args.input_answer.value)
        ordered == Ascending(positions)
    IN  [p \in 1..(2 * Len(ordered)) |->
            IF p % 2 = 1 THEN "-map"
            ELSE "-0:" \o str(streams[ordered[p \div 2]].index)]

\* -codec:<k> <codec> for the converted subtitle streams, by ascending index.
ConversionOptions ==
    LET streams == get_streams_list(args.input_answer.value)
        ordered == Ascending(ConvertedStreams)
    IN  [p \in 1..(2 * Len(ordered)) |->
            IF p % 2 = 1 THEN "-codec:" \o str(OutputIndex(ordered[(p + 1) \div 2]))
            ELSE select_conversion_for_container(
                     streams[ordered[p \div 2]].codec_name, args.container)]

\* The number of -map options of a command.
MapCount(cmd) == Cardinality({p \in 1..Len(cmd) : cmd[p] = "-map"})

\* C16: the command of replace_streams_command is, in this order: ffmpeg,
\* -nostdin, -i input, -i replacement, -map 1:<type>, -map 0, -map -0:<type>,
\* one -map -0:<i> per stripped data stream, one per stripped subtitle stream,
\* the -codec:<k> options, -copy_unknown, -c:v copy, -c:d copy, -f <container>
\* if a container is given, -c:a <encoder> and -b:a <bitrate> if requested, and
\* the output file.  Without strip flags, container and targs it is the
\* eighteen-element command; with both strip flags false it has three -map.
C16_ArgumentOrder ==
    ReplaceCommandBuilt =>
        LET metadata == args.input_answer.value
            audio == IF "audio" \in DOMAIN args.targs THEN args.targs["audio"]
                     ELSE EmptyDict
            stripped_data ==
                IF args.strip_unsupported_data_streams
                THEN UnsupportedDataStreams(metadata) ELSE {}
            stripped_subtitles ==
                IF args.strip_unsupported_subtitle_streams /\ args.container # None
                THEN UnsupportedSubtitleStreams(metadata, args.container) ELSE {}
        IN  /\ result.value =
                   <<"ffmpeg", "-nostdin", "-i", c_input_file,
                     "-i", c_replacement_source,
                     "-map", "1:" \o args.stream_type,
                     "-map", "0",
                     "-map", "-0:" \o args.stream_type>>
                   \o StripOptions(stripped_data)
                   \o StripOptions(stripped_subtitles)
                   \o ConversionOptions
                   \o <<"-copy_unknown", "-c:v", "copy", "-c:d", "copy">>
                   \o (IF args.container # None THEN <<"-f", args.container>>
                       ELSE <<>>)
                   \o (IF "codec" \in DOMAIN audio
                       THEN <<"-c:a", get_audio_encoder(audio["codec"]).value>>
                       ELSE <<>>)
                   \o (IF "bitrate" \in DOMAIN audio
                       THEN <<"-b:a", audio["bitrate"]>> ELSE <<>>)
                   \o <<c_output_file>>
            /\ (/\ ~args.strip_unsupported_data_streams
                /\ ~args.strip_unsupported_subtitle_streams
                /\ args.container = None
                /\ args.targs = EmptyDict
                /\ args.stream_type = "v")
               => result.value =
                      <<"ffmpeg", "-nostdin", "-i", c_input_file,
                        "-i", c_replacement_source,
                        "-map", "1:v", "-map", "0", "-map", "-0:v",
                        "-copy_unknown", "-c:v", "copy", "-c:d", "copy",
                        c_output_file>>
            /\ (/\ ~args.strip_unsupported_data_streams
                /\ ~args.strip_unsupported_subtitle_streams)
               => MapCount(result.value) = 3

\* A command with every optional part: the long file to mp4 with both strip
\* flags set, an audio codec and an audio bitrate.
C16_Witness ==
    /\ ReplaceCommandBuilt
    /\ args.input_answer.value = LongMetadata
    /\ args.container = "mp4"
    /\ args.strip_unsupported_data_streams
    /\ args.strip_unsupported_subtitle_streams
    /\ args.targs = ("audio" :> [codec |-> "mp3", bitrate |-> "128k"])
    /\ UnsupportedDataStreams(LongMetadata) # {}
    /\ UnsupportedSubtitleStreams(LongMetadata, "mp4") # {}
    /\ ConvertedStreams # {}
    /\ MapCount(result.value) > 4
    /\ result.value[Len(result.value) - 6] = "-f"
    /\ result.value[Len(result.value) - 4] = "-c:a"
    /\ result.value[Len(result.value) - 3] = "libmp3lame"
    /\ result.value[Len(result.value) - 2] = "-b:a"

\* C17: transcode_video_command fails with InvalidArgument for every targs
\* with an 'audio' entry; replace_streams_command fails with InvalidArgument
\* for every targs with a 'video' entry and for every stream type other than
\* v, V, a, and has then run no subprocess: neither file was probed.
C17_InvalidArgument ==
    /\ (op = "transcode_video_command" /\ "audio" \in DOMAIN args.targs)
           => result = Raise("InvalidArgument")
    /\ (/\ op = "replace_streams_command"
        /\ \/ "video" \in DOMAIN args.targs
           \/ args.stream_type \notin {"v", "V", "a"})
           => result = Raise("InvalidArgument") /\ executed = <<>>

\* A request with video parameters, a valid stream type and two files that
\* ffprobe would read, rejected before ffprobe is run.
C17_Witness ==
    /\ op = "replace_streams_command"
    /\ "video" \in DOMAIN args.targs
    /\ args.stream_type = "v"
    /\ args.input_answer.ok
    /\ args.replacement_answer.ok
    /\ result = Raise("InvalidArgument")
    /\ executed = <<>>

\* The ten functions that build a command.
CommandBuilders ==
    {"extract_streams_command", "split_video_command", "transcode_video_command",
     "merge_videos_command", "replace_streams_command", "get_metadata_command",
     "compute_psnr_command", "compute_ssim_command", "get_query_muxer_info_command",
     "get_query_encoder_info_command"}

\* C18: building a command executes no subprocess and touches no file.
C18_BuildersArePure ==
    op \in CommandBuilders => executed = <<>> /\ files = EmptyDict

\* The segments listed in the list file of a call, before the call; the file
\* of the i-th segment and the file it would be renamed to.
ListedSegments(fs, request) == splitlines(fs[request.output_list_file_path])

SegmentFile(fs, request, i) ==
    os_path_join(os_path_dirname(request.output_list_file_path),
                 ListedSegments(fs, request)[i])

RenameTarget(fs, request, i) ==
    without_last(SegmentFile(fs, request, i), Len(request.suffix))

\* The call is what the split leaves behind: a list file that lists distinct
\* segment files, all present, a suffix that is not empty, and no directory
\* where a segment would be renamed to.
AfterSplit(fs, request) ==
    /\ request.output_list_file_path \in DOMAIN fs
    /\ request.suffix # ""
    /\ LET segments == ListedSegments(fs, request)
       IN  /\ \A i, j \in DOMAIN segments : segments[i] = segments[j] => i = j
           /\ \A i \in DOMAIN segments :
                  /\ SegmentFile(fs, request, i) \in DOMAIN fs
                  /\ ~is_directory(fs, RenameTarget(fs, request, i))
                  /\ RenameTarget(fs, request, i) # request.output_list_file_path

\* The first listed segment that stops the operation: its path does not end
\* with the suffix, or the file it would be renamed to exists.  0 when there is
\* none.
FirstRefused(fs, request) ==
    LET segments == ListedSegments(fs, request)
        refused ==
            {i \in DOMAIN segments :
                \/ ~endswith(segments[i], request.suffix)
                \/ RenameTarget(fs, request, i) \in DOMAIN fs}
    IN  IF refused = {} THEN 0 ELSE CHOOSE i \in refused : \A j \in refused : i <= j

\* C19: strip_suffix_from_segments_and_rename_files fails with
\* InvalidCommandOutput at a segment whose path does not end with the suffix and
\* with FileAlreadyExists at a segment whose rename target exists; a file that
\* exists where a segment would be renamed to is never overwritten; otherwise
\* every segment file is renamed to its path without the suffix and the list
\* file holds the stripped paths in the same order.
C19_StripSuffix ==
    [][(/\ op = "idle"
        /\ op' = "strip_suffix_from_segments_and_rename_files"
        /\ AfterSplit(files, args'))
       => LET segments == ListedSegments(files, args')
              first == FirstRefused(files, args')
          IN  /\ \A i \in DOMAIN segments :
                     (/\ endswith(segments[i], args'.suffix)
                      /\ RenameTarget(files, args', i) \in DOMAIN files)
                     => /\ RenameTarget(files, args', i) \in DOMAIN files'
                        /\ files'[RenameTarget(files, args', i)] =
                               files[RenameTarget(files, args', i)]
              /\ (first # 0 /\ ~endswith(segments[first], args'.suffix))
                     => result' = Raise("InvalidCommandOutput")
              /\ (first # 0 /\ endswith(segments[first], args'.suffix))
                     => result' = Raise("FileAlreadyExists")
              /\ first = 0
                     => /\ result' = Ok(None)
                        /\ \A i \in DOMAIN segments :
                               /\ SegmentFile(files, args', i) \notin DOMAIN files'
                               /\ RenameTarget(files, args', i) \in DOMAIN files'
                               /\ files'[RenameTarget(files, args', i)] =
                                      files[SegmentFile(files, args', i)]
                        /\ splitlines(files'[args'.output_list_file_path]) =
                               [i \in DOMAIN segments |->
                                   without_last(segments[i], Len(args'.suffix))]]_vars

\* C21: a codec whose row in the conversion table is not empty can be
\* converted to itself: C.can_convert(C.value) is true for every video, audio
\* and subtitle codec C with some conversion.
C21_SameCodecPassthrough ==
    /\ (/\ op = "VideoCodec_can_convert"
        /\ args.video_codec = args.self
        /\ VideoCodec_get_supported_conversions(args.self) # {})
           => result = TRUE
    /\ (/\ op = "AudioCodec_can_convert"
        /\ args.audio_codec = args.self
        /\ AudioCodec_get_supported_conversions(args.self) # {})
           => result = TRUE
    /\ (/\ op = "SubtitleCodec_can_convert"
        /\ args.subtitle_codec = args.self
        /\ SubtitleCodec_get_supported_conversions(args.self) # {})
           => result = TRUE

\* C22: the intermediate muxer of an exclusive demuxer is a concrete muxer
\* among the demuxer's matching muxers, and supports every video, audio and
\* subtitle codec that the demuxer supports (the union over its matching
\* muxers).
C22_SafeIntermediateMuxer ==
    (op = "get_intermediate_muxer" /\ args.self \in _EXCLUSIVE_DEMUXERS)
    => /\ result \in get_matching_muxers(args.self)
       /\ result \notin _EXCLUSIVE_DEMUXERS
       /\ \A kind \in {"videocodecs", "audiocodecs", "subtitlecodecs"} :
              get_supported_codecs(args.self, kind)
                  \subseteq get_supported_codecs(result, kind)

\* The codec that each line of MuxerInfoLines names as the default audio codec,
\* as the corner cases of the parser's test list them; NoCodec for a line that
\* is no 'Default audio codec' line.
NoCodec == "no default audio codec"

DefaultAudioCodecOf(line) ==
    CASE line = "   Default audio codec: amr_nb." -> "amr_nb"
      [] line = "   Default audio codec: mp3." -> "mp3"
      [] line = "Default audiocodec: vorbis" -> "vorbis"
      [] line = "Default audio codec: amr_nb.FAILED." -> "amr_nb.FAILED"
      [] line = "Default audio codec: amr_nb. Default audio codec: mp2 "
             -> "amr_nb. Default audio codec: mp2"
      [] line = "Default audio codec:" -> ""
      [] OTHER -> NoCodec

\* The lines of ffmpeg's answer to a call of query_muxer_info that name a
\* default audio codec (positions in the text).
DefaultAudioCodecLines ==
    LET lines == regex_lines(args.answer.value)
    IN  {i \in DOMAIN lines : DefaultAudioCodecOf(lines[i]) # NoCodec}

MuxerInfoRead == op = "query_muxer_info" /\ args.answer.ok

\* C23, as the code has it: query_muxer_info returns {default_audio_codec: X}
\* when ffmpeg's help has exactly one 'Default audio codec: X' line, returns the
\* empty dict when it has none, and fails with NoMatchingEncoder when it has two
\* or more.
C23_DefaultAudioCodec ==
    MuxerInfoRead =>
        LET lines == regex_lines(args.answer.value)
            found == DefaultAudioCodecLines
        IN  /\ Cardinality(found) = 0 => result = Ok(EmptyDict)
            /\ Cardinality(found) = 1 =>
                   \A i \in found :
                       result = Ok([default_audio_codec |-> DefaultAudioCodecOf(lines[i])])
            /\ Cardinality(found) >= 2 => result = Raise("NoMatchingEncoder")

\* ffmpeg's help of the test, without a default audio codec: the empty dict.
C23_Witness ==
    /\ MuxerInfoRead
    /\ args.answer.value =
           "Muxer 3g2 [3GP2 (3GPP2 file format)]:\n   Default video codec: h263.\n"
    /\ DefaultAudioCodecLines = {}
    /\ result = Ok(EmptyDict)

\* C23 as stated: NoMatchingEncoder also when no line names a default audio
\* codec.
C23_NoMatchingEncoderWithoutLine ==
    MuxerInfoRead =>
        LET lines == regex_lines(args.answer.value)
            found == DefaultAudioCodecLines
        IN  /\ Cardinality(found) = 1 =>
                   \A i \in found :
                       result = Ok([default_audio_codec |-> DefaultAudioCodecOf(lines[i])])
            /\ Cardinality(found) # 1 => result = Raise("NoMatchingEncoder")

\* The string of a call of FrameRate.__str__, as a list of characters, and what
\* lies before and after its first slash.
PrintedRate == list_of_str(result)

\* C24: for a frame rate with dividend n >= 0 and divisor d > 0, str gives
\* 'n/d' and FrameRate.decode of that string gives the same frame rate back,
\* without reduction.
C24_RoundTrip ==
    op = "FrameRate.__str__" =>
        /\ decode(RawStr(PrintedRate)) = Ok(args.self)
        /\ Len(split_slash_once(PrintedRate)) = 2
        /\ \A k \in 1..2 :
               /\ split_slash_once(PrintedRate)[k] # <<>>
               /\ \A i \in DOMAIN split_slash_once(PrintedRate)[k] :
                      IsDigit(split_slash_once(PrintedRate)[k][i])
        /\ DigitsValue(split_slash_once(PrintedRate)[1]) = args.self.dividend
        /\ DigitsValue(split_slash_once(PrintedRate)[2]) = args.self.divisor

\* 10/4 is printed as '10/4' and read back as 10/4, not as 5/2.
C24_Witness ==
    /\ op = "FrameRate.__str__"
    /\ args.self = FrameRate(10, 4)
    /\ result = "10/4"
    /\ decode(RawStr(PrintedRate)) = Ok(FrameRate(10, 4))
    /\ normalized(args.self) # args.self

\* The raw values that the claim lists as rejected: a negative component, a
\* zero divisor, a component that is no integer, a length other than 1 or 2.
RejectedRawValue(raw_value) ==
    CASE raw_value.kind = "int" -> raw_value.val < 0
      [] raw_value.kind = "float" -> ~raw_value.integral \/ raw_value.val < 0
      [] raw_value.kind \in {"float_inf", "float_nan"} -> TRUE
      [] raw_value.kind = "FrameRate" -> raw_value.dividend < 0 \/ raw_value.divisor <= 0
      [] raw_value.kind = "list" ->
            \/ Len(raw_value.items) \notin {1, 2}
            \/ \E i \in DOMAIN raw_value.items :
                   raw_value.items[i].kind # "int" \/ raw_value.items[i].val < 0
            \/ Len(raw_value.items) = 2 /\ raw_value.items[2].val = 0
      [] OTHER -> FALSE

\* C25: every value that FrameRate.decode returns has dividend >= 0 and
\* divisor > 0, and a raw value with a negative component, a zero divisor, a
\* component that is no integer or a length other than 1 or 2 is rejected with
\* ValueError.
C25_DecodedInvariant ==
    op = "decode" =>
        /\ result.ok => FrameRateInvariant(result.value)
        /\ RejectedRawValue(args.raw_value) => result = Raise("ValueError")

\* The accessors that return a list, and the metadata they were called with
\* has no list of streams.
ListAccessors ==
    {"get_resolutions", "get_frame_rates", "get_sample_rates", "get_codecs",
     "get_streams", "find_stream_indexes", "get_attribute_from_all_streams"}

\* C26: the stream accessors never raise on metadata without 'streams' or with
\* streams that lack fields: get_resolution and get_frame_rate return a value,
\* and without 'streams' the lists are empty and the count is 0.
C26_AccessorsNeverRaise ==
    /\ op \in {"get_resolution", "get_frame_rate"} => result.ok
    /\ (op \in ListAccessors /\ "streams" \notin DOMAIN args.metadata) => result = <<>>
    /\ (op = "count_streams" /\ "streams" \notin DOMAIN args.metadata) => result = 0

\* The list file that a completed split has returned, and its lines.
SplitCompleted == op \in {"split", "split_video"} /\ result.ok

SplitSegments == splitlines(files[result.value])

\* C27: after split or split_video completes, the n-th line of the segment
\* list is '<input basename>_<n><input extension>' and names a file that
\* exists beside the list, with and without a container.
C27_SegmentNames ==
    SplitCompleted =>
        LET filename == os_path_split(args.input_file)[2]
            basename == os_path_splitext(filename)[1]
            extension == os_path_splitext(filename)[2]
        IN  /\ Len(SplitSegments) = args.segments
            /\ \A n \in 1..Len(SplitSegments) :
                   /\ SplitSegments[n] = basename \o "_" \o str(n - 1) \o extension
                   /\ os_path_join(os_path_dirname(result.value), SplitSegments[n])
                          \in DOMAIN files

\* A replace request that passes the checks of its arguments, with both files
\* probed and with distinct indexes from 0 on in the input file.
ReplaceRequestRenumbered ==
    /\ op = "replace_streams_command"
    /\ args.stream_type \in DOMAIN VALID_STREAM_TYPES
    /\ "video" \notin DOMAIN args.targs
    /\ args.input_answer.ok
    /\ args.replacement_answer.ok
    /\ LET streams == get_streams_list(args.input_answer.value)
       IN  \A i, j \in 1..Len(streams) :
               /\ streams[i].index \in Nat
               /\ i # j => streams[i].index # streams[j].index

\* C28: whatever the order in which the streams of the input file are listed,
\* replace_streams_command trips no assertion of the renumbering helpers.
C28_NoAssertionTripped ==
    ReplaceRequestRenumbered => result # Raise("AssertionError")

\* C29: when strip_suffix_from_segments_and_rename_files returns or raises,
\* every path in the list file names an existing segment file; when it raises
\* InvalidCommandOutput or FileAlreadyExists no segment has been renamed and
\* the list file is unchanged.
C29_ListAgreesWithDisk ==
    [][(/\ op = "idle"
        /\ op' = "strip_suffix_from_segments_and_rename_files"
        /\ AfterSplit(files, args'))
       => /\ \A i \in DOMAIN ListedSegments(files', args') :
                 SegmentFile(files', args', i) \in DOMAIN files'
          /\ result' \in {Raise("InvalidCommandOutput"), Raise("FileAlreadyExists")}
                 => files' = files]_vars

\* The codec that the targs of the call ask for, and whether some source codec
\* converts to it.
RequestedVideoCodec == args.targs["video"]["codec"]

RequestedAudioCodec == args.targs["audio"]["codec"]

VideoConversionValidated ==
    /\ op = "transcode_video_command"
    /\ result.ok
    /\ "video" \in DOMAIN args.targs
    /\ "codec" \in DOMAIN args.targs["video"]
    /\ \E src_codec \in VideoCodec :
           validate_video_codec_conversion(src_codec, RequestedVideoCodec) = "True"

AudioConversionValidated ==
    /\ op = "replace_streams_command"
    /\ result.ok
    /\ "audio" \in DOMAIN args.targs
    /\ "codec" \in DOMAIN args.targs["audio"]
    /\ \E src_codec \in AudioCodec, audio_stream \in AudioStreams :
           validate_audio_codec_conversion(src_codec, RequestedAudioCodec, audio_stream)
               = "True"

\* C30: every target of a video or audio conversion is a codec of its enum
\* with an encoder that is not None, and a command built for a target that
\* passes the validation of the conversion has no None after -c:v or -c:a.
C30_TargetsHaveEncoders ==
    /\ (op = "VideoCodec_can_convert" /\ result = TRUE)
           => /\ args.video_codec \in VideoCodec
              /\ get_video_encoder(args.video_codec).ok
              /\ get_video_encoder(args.video_codec).value # None
    /\ (op = "AudioCodec_can_convert" /\ result = TRUE)
           => /\ args.audio_codec \in AudioCodec
              /\ get_audio_encoder(args.audio_codec).ok
              /\ get_audio_encoder(args.audio_codec).value # None
    /\ VideoConversionValidated
           => /\ \E p \in 1..(Len(result.value) - 1) : result.value[p] = "-c:v"
              /\ \A p \in 1..(Len(result.value) - 1) :
                     result.value[p] = "-c:v" => result.value[p + 1] # None
    /\ AudioConversionValidated
           => /\ \E p \in 1..(Len(result.value) - 1) : result.value[p] = "-c:a"
              /\ \A p \in 1..(Len(result.value) - 1) :
                     result.value[p] = "-c:a" => result.value[p + 1] # None

\* A command for the target mpeg4, which every source with conversions
\* converts to: its encoder is libxvid.
C30_Witness ==
    /\ VideoConversionValidated
    /\ RequestedVideoCodec = "mpeg4"
    /\ VideoCodec_can_convert("theora", RequestedVideoCodec)
    /\ \E p \in 1..(Len(result.value) - 1) :
           result.value[p] = "-c:v" /\ result.value[p + 1] = "libxvid"

====
